---- MODULE Spec2Model ----
(***************************************************************************)
(* wp-static-scraper: asset discovery (assets.collectAllAssetJobs), the    *)
(* concurrent downloader (assets.ConcurrentDownloader: job channel,        *)
(* workers, asynchronous retry goroutines, result channel) and the driver  *)
(* assets.LocalizeAssets, as one state machine.                            *)
(*                                                                         *)
(* Strings that the code takes apart (URLs, references, file names) are    *)
(* records of their parts, one record per string, so that equality of      *)
(* records is equality of strings.                                         *)
(***************************************************************************)
EXTENDS Integers, Sequences, FiniteSets, TLC

(***************************************************************************)
(* Bounds of the model.                                                    *)
(***************************************************************************)
MaxWorkersBound == 2    \* worker counts explored: 1..MaxWorkersBound
MaxElems == 2           \* elements per document in Spec
MaxLoadJobs == 10       \* elements per document in SpecLoad
MaxFailures == 4        \* failing fetches of job URLs in one run of Spec
MaxLoadFailures == 1    \* failing fetches of job URLs in one run of SpecLoad
MaxQuietElems == 2      \* elements per document in SpecQuiet
MaxQuietFailures == 1   \* failing fetches of job URLs in one run of SpecQuiet
MaxRetryJobs == 5       \* images that cannot be fetched per document in SpecRetry
MaxRewriteElems == 2    \* elements per document in SpecRewrite
MaxRewriteFailures == 4 \* failing fetches of job URLs in one run of SpecRewrite
MaxSegs == 2            \* path segments of a reference given to ResolveURL
MaxContentLen == 4      \* tokens of a body given to RemoveSourceMapReferences
MaxSrcsetLen == 2       \* comma-separated entries of a srcset
MaxStoreElems == 2      \* elements per document in SpecStore
MaxStoreFailures == 1   \* failing fetches of parseable URLs in one run of SpecStore
MaxWriteFailures == 1   \* failing os.WriteFile calls in one run of SpecStore
MaxScanElems == 2       \* elements of a document given to the scanner alone
MaxCssRefs == 2         \* url(...) references of a stylesheet given to LocalizeFontURLs
MaxPageLen == 3         \* tokens of a page given to AddErrorSuppressionScript
MaxApplications == 3    \* successive applications of AddErrorSuppressionScript
MaxTierJobs == 6        \* jobs handed to the downloader with priority queues
                        \* by one worker; two fewer for each further worker
MaxTierFailures == 1    \* jobs that processJob gives up on in one run of SpecTier

(***************************************************************************)
(* Program constants.                                                      *)
(***************************************************************************)
QueueFactor == 4        \* make(chan ..., maxWorkers*4)
RetryLimit == 3         \* job.RetryCount < 3
TierFactor == 2         \* make(chan ..., maxWorkers*2)

(***************************************************************************)
(* URL references.  A path is a sequence of segments, a segment a file     *)
(* name and an extension; "/a/" ends in the empty segment.                 *)
(***************************************************************************)
Seg(n, e) == [name |-> n, ext |-> e]
EmptySeg == Seg("", "")
Dot == Seg(".", "")
DotDot == Seg("..", "")

MkRef(scheme, host, rooted, segs) ==
  [scheme |-> scheme, host |-> host, rooted |-> rooted, segs |-> segs,
   bad |-> FALSE]

EmptyRef == MkRef("", "", FALSE, <<>>)

Front(s) == IF s = <<>> THEN <<>> ELSE SubSeq(s, 1, Len(s) - 1)
Last(s) == s[Len(s)]

\* net/url resolvePath: drop ".", let ".." remove the segment before it
RECURSIVE RemoveDotsAcc(_, _)
RemoveDotsAcc(segs, acc) ==
  IF segs = <<>> THEN acc
  ELSE LET e == Head(segs) IN
       IF e = Dot THEN RemoveDotsAcc(Tail(segs), acc)
       ELSE IF e = DotDot THEN RemoveDotsAcc(Tail(segs), Front(acc))
       ELSE RemoveDotsAcc(Tail(segs), Append(acc, e))

RemoveDots(segs) ==
  IF segs = <<>> THEN <<>>
  ELSE IF Last(segs) \in {Dot, DotDot}
       THEN Append(RemoveDotsAcc(segs, <<>>), EmptySeg)
       ELSE RemoveDotsAcc(segs, <<>>)

\* a resolver that takes every reference for a path relative to the base
ResolveURL_AlwaysJoin(base, ref) ==
  IF ref.bad THEN ref
  ELSE MkRef(base.scheme, base.host, TRUE,
             RemoveDots(Front(base.segs) \o ref.segs))

\* utils.ResolveURL: url.Parse(ref), on error the reference itself, else
\* base.ResolveReference(u).String()
ResolveURL(base, ref) ==
  IF ref.bad THEN ref
  ELSE IF ref.scheme # "" \/ ref.host # ""
  THEN MkRef(IF ref.scheme = "" THEN base.scheme ELSE ref.scheme, ref.host,
             ref.segs # <<>>, RemoveDots(ref.segs))
  ELSE LET full == IF ref.segs = <<>> THEN base.segs
                   ELSE IF ref.rooted THEN ref.segs
                   ELSE Front(base.segs) \o ref.segs
       IN MkRef(base.scheme, base.host, full # <<>>, RemoveDots(full))

\* strings.HasPrefix(s, "http://") || strings.HasPrefix(s, "https://")
HasHTTPPrefix(ref) == ref.scheme \in {"http", "https"}

(***************************************************************************)
(* Jobs and results.                                                       *)
(***************************************************************************)
\* DownloadJob; BaseURL is the one base of the run and is not stored
DownloadJob(url, type, orig) ==
  [URL |-> url, Type |-> type, OriginalPath |-> orig, RetryCount |-> 0]

\* the job as submitted, whatever its retry count is now
JobKey(job) == [job EXCEPT !.RetryCount = 0]

DownloadResult(job, path, ok) ==
  [Job |-> job, LocalPath |-> path, Success |-> ok]

NoPath == [dir |-> "", file |-> <<>>]

(***************************************************************************)
(* Documents.  A document is the sequence of its elements in traversal     *)
(* order; an element has a tag, attributes (key, val) in source order and, *)
(* for a style element, the url(...) references of its text.  The value of *)
(* href, src, data-src and content is a reference, that of srcset and of   *)
(* style the sequence of its URLs, that of rel, property, name a string.   *)
(***************************************************************************)
Attr(k, v) == [key |-> k, val |-> v]
Elem(tag, attrs, text) == [tag |-> tag, attrs |-> attrs, text |-> text]

\* for _, attr := range n.Attr { if attr.Key == k { x = attr.Val } }
RECURSIVE AttrVal(_, _, _)
AttrVal(attrs, k, default) ==
  IF attrs = <<>> THEN default
  ELSE IF Last(attrs).key = k THEN Last(attrs).val
  ELSE AttrVal(Front(attrs), k, default)

\* if !urlSeen[resolvedURL] { urlSeen[resolvedURL] = true; jobs = append(...) }
AddIfNew(st, url, type, orig) ==
  IF url \in st.seen THEN st
  ELSE [jobs |-> Append(st.jobs, DownloadJob(url, type, orig)),
        seen |-> st.seen \cup {url}]

AddImage_AnyReference(base, st, src) ==
  AddIfNew(st, ResolveURL(base, src), "image", src)

\* an image reference qualifies only when it is an absolute http(s) URL
AddImage(base, st, src) ==
  IF HasHTTPPrefix(src) THEN AddIfNew(st, ResolveURL(base, src), "image", src)
  ELSE st

\* collectSrcsetJobsWithDupeCheck and collectStyleBackgroundJobsWithDupeCheck
RECURSIVE AddImages(_, _, _)
AddImages(base, st, urls) ==
  IF urls = <<>> THEN st
  ELSE AddImages(base, AddImage(base, st, Head(urls)), Tail(urls))

LinkJobs(base, st, el) ==
  LET href == AttrVal(el.attrs, "href", EmptyRef)
      rel == AttrVal(el.attrs, "rel", "")
      s1 == IF rel \in {"stylesheet", "preload"} /\ href # EmptyRef
            THEN AddIfNew(st, ResolveURL(base, href), "css", href) ELSE st
      s2 == IF rel = "manifest" /\ href # EmptyRef
            THEN AddIfNew(s1, ResolveURL(base, href), "json", href) ELSE s1
  IN IF rel \in {"icon", "shortcut icon", "apple-touch-icon"} /\ href # EmptyRef
     THEN AddIfNew(s2, ResolveURL(base, href), "image", href) ELSE s2

ScriptJobs_EmptySrc(base, st, el) ==
  AddIfNew(st, ResolveURL(base, AttrVal(el.attrs, "src", EmptyRef)), "js",
           AttrVal(el.attrs, "src", EmptyRef))

ScriptJobs(base, st, el) ==
  LET src == AttrVal(el.attrs, "src", EmptyRef)
  IN IF src # EmptyRef THEN AddIfNew(st, ResolveURL(base, src), "js", src)
     ELSE st

RECURSIVE ImgJobs(_, _, _)
ImgJobs(base, st, attrs) ==
  IF attrs = <<>> THEN st
  ELSE LET a == Head(attrs)
           s1 == IF a.key \in {"src", "data-src"} /\ a.val # EmptyRef
                 THEN AddImage(base, st, a.val) ELSE st
           s2 == IF a.key = "srcset" THEN AddImages(base, s1, a.val) ELSE s1
       IN ImgJobs(base, s2, Tail(attrs))

MetaJobs(base, st, el) ==
  LET content == AttrVal(el.attrs, "content", EmptyRef)
      property == AttrVal(el.attrs, "property", "")
      name == AttrVal(el.attrs, "name", "")
      isImageMeta == \/ property \in {"og:image", "og:image:secure_url"}
                     \/ name \in {"twitter:image", "msapplication-TileImage"}
  IN IF isImageMeta /\ content # EmptyRef THEN AddImage(base, st, content)
     ELSE st

RECURSIVE StyleAttrJobs(_, _, _)
StyleAttrJobs(base, st, attrs) ==
  IF attrs = <<>> THEN st
  ELSE LET a == Head(attrs)
           s1 == IF a.key = "style" THEN AddImages(base, st, a.val) ELSE st
       IN StyleAttrJobs(base, s1, Tail(attrs))

\* the body of traverse for one node
ElemJobs(base, st, el) ==
  LET s1 == IF el.tag = "link" THEN LinkJobs(base, st, el) ELSE st
      s2 == IF el.tag = "script" THEN ScriptJobs(base, s1, el) ELSE s1
      s3 == IF el.tag = "img" THEN ImgJobs(base, s2, el.attrs) ELSE s2
      s4 == IF el.tag = "meta" THEN MetaJobs(base, s3, el) ELSE s3
  IN StyleAttrJobs(base, s4, el.attrs)

RECURSIVE Traverse(_, _, _)
Traverse(base, st, doc) ==
  IF doc = <<>> THEN st
  ELSE \* the node is handled before the traversal goes on
       CHOOSE r \in {Traverse(base, s, Tail(doc)) :
                       s \in {ElemJobs(base, st, Head(doc))}} : TRUE

collectAssetJobs(doc, base) ==
  Traverse(base, [jobs |-> <<>>, seen |-> {}], doc).jobs

IsFontFile(ref) ==
  ref.segs # <<>> /\ Last(ref.segs).ext \in {"woff", "woff2", "ttf", "eot", "svg"}

\* the font URL of a url(...) reference, as both CSS scanners compute it
FontURL(base, fontPath) ==
  IF HasHTTPPrefix(fontPath) THEN fontPath
  ELSE IF fontPath.scheme = "" /\ fontPath.host # ""
  THEN [fontPath EXCEPT !.scheme = base.scheme]
  ELSE ResolveURL(base, fontPath)

RECURSIVE collectFontJobsFromCSS(_, _)
collectFontJobsFromCSS(css, base) ==
  IF css = <<>> THEN <<>>
  ELSE LET fontPath == Head(css)
           rest == collectFontJobsFromCSS(Tail(css), base)
       IN IF IsFontFile(fontPath)
          THEN <<DownloadJob(FontURL(base, fontPath), "font", fontPath)>> \o rest
          ELSE rest

RECURSIVE AddFontJobs(_, _)
AddFontJobs(st, fontJobs) ==
  IF fontJobs = <<>> THEN st
  ELSE LET job == Head(fontJobs)
           s1 == IF job.URL \in st.seen THEN st
                 ELSE [jobs |-> Append(st.jobs, job),
                       seen |-> st.seen \cup {job.URL}]
       IN AddFontJobs(s1, Tail(fontJobs))

RECURSIVE InlineFontTraverse(_, _, _)
InlineFontTraverse(base, st, doc) ==
  IF doc = <<>> THEN st
  ELSE LET el == Head(doc)
           s1 == IF el.tag = "style" /\ el.text # <<>>
                 THEN AddFontJobs(st, collectFontJobsFromCSS(el.text, base))
                 ELSE st
       IN InlineFontTraverse(base, s1, Tail(doc))

\* its urlSeen is a fresh map, not the one of collectAssetJobs
collectInlineFontJobs(doc, base) ==
  InlineFontTraverse(base, [jobs |-> <<>>, seen |-> {}], doc).jobs

collectAllAssetJobs(doc, base) ==
  collectAssetJobs(doc, base) \o collectInlineFontJobs(doc, base)

(***************************************************************************)
(* The site the model scrapes: base https://x/d/, a stylesheet that uses a *)
(* font, a script that names the stylesheet, an image, an inline style.    *)
(***************************************************************************)
Base == MkRef("https", "x", TRUE, <<Seg("d", ""), EmptySeg>>)

Rel(n, e) == MkRef("", "", FALSE, <<Seg(n, e)>>)
Abs(n, e) == MkRef("https", "x", TRUE, <<Seg("d", ""), Seg(n, e)>>)

Link(rel, href) == Elem("link", <<Attr("rel", rel), Attr("href", href)>>, <<>>)
Script(src) == Elem("script", <<Attr("src", src)>>, <<>>)
Img(src) == Elem("img", <<Attr("src", src)>>, <<>>)
Style(css) == Elem("style", <<>>, css)

Elems ==
  { Link("stylesheet", Rel("s", "css")),
    Link("stylesheet", Abs("s", "css")),
    Script(Rel("a", "js")),
    Img(Abs("i", "svg")),
    Style(<<Abs("i", "svg")>>) }

RECURSIVE SeqsUpTo(_, _)
SeqsUpTo(S, n) ==
  IF n = 0 THEN {<<>>}
  ELSE LET shorter == SeqsUpTo(S, n - 1)
       IN shorter \cup {Append(d, e) : d \in shorter, e \in S}

Docs == SeqsUpTo(Elems, MaxElems) \ {<<>>}

\* pages whose references contain one another: the icon "i.svg", a lazily
\* loaded image that names https://x/e/i.svg in src and in data-src
AbsE(n, e) == MkRef("https", "x", TRUE, <<Seg("e", ""), Seg(n, e)>>)
LazyImg(src) ==
  Elem("img", <<Attr("src", src), Attr("data-src", src)>>, <<>>)

RewriteElems ==
  { Link("icon", Rel("i", "svg")),
    LazyImg(AbsE("i", "svg")),
    LazyImg(Abs("p", "png")),
    Link("stylesheet", Rel("s", "css")) }

RewriteDocs == SeqsUpTo(RewriteElems, MaxRewriteElems) \ {<<>>}

ImgNames == <<"i01", "i02", "i03", "i04", "i05", "i06", "i07", "i08", "i09",
              "i10", "i11", "i12">>

\* a page of n elements with n distinct assets: a stylesheet, then images
RECURSIVE LoadDoc(_)
LoadDoc(n) ==
  IF n = 0 THEN <<>>
  ELSE IF n = 1 THEN <<Link("stylesheet", Rel("s", "css"))>>
  ELSE Append(LoadDoc(n - 1), Img(Abs(ImgNames[n], "png")))

\* the url(...) references in the stylesheet served at url
CssBody(url) ==
  IF url = Abs("s", "css") THEN <<Rel("f", "woff")>> ELSE <<>>

\* the quoted absolute .css URLs in the script served at url
JsBody(url) ==
  IF url = Abs("a", "js") THEN <<Abs("s", "css")>> ELSE <<>>

(***************************************************************************)
(* Fetches a job makes beyond its own URL.  downloadResource hands a       *)
(* stylesheet to LocalizeFontURLs, which fetches every url(...) of it, and *)
(* a script to LocalizeJavaScriptURLs, which fetches the stylesheets it    *)
(* names with DownloadResource, which again runs LocalizeFontURLs.         *)
(***************************************************************************)
Fetch(url, type) == [URL |-> url, Type |-> type]

RECURSIVE FontFetches(_, _)
FontFetches(css, base) ==
  IF css = <<>> THEN <<>>
  ELSE <<Fetch(FontURL(base, Head(css)), "font")>> \o FontFetches(Tail(css), base)

RECURSIVE CssFetches(_, _)
CssFetches(js, base) ==
  IF js = <<>> THEN <<>>
  ELSE <<Fetch(ResolveURL(base, Head(js)), "css")>> \o CssFetches(Tail(js), base)

\* a transformation that leaves the fonts of a stylesheet alone
SecondaryFetches_NoFonts(url, type, base) ==
  IF type = "js" THEN CssFetches(JsBody(url), base) ELSE <<>>

\* the fetches that follow the successful fetch of url
SecondaryFetches(url, type, base) ==
  IF type = "css" THEN FontFetches(CssBody(url), base)
  ELSE IF type = "js" THEN CssFetches(JsBody(url), base)
  ELSE <<>>

(***************************************************************************)
(* Local paths.                                                            *)
(***************************************************************************)
FileName(url) == IF url.segs = <<>> THEN EmptySeg ELSE Last(url.segs)

\* the extension taken from the Content-Type of an image without extension
ContentTypeExt == "jpg"

\* the local path of a job whose download succeeded
LocalPathOf(job) ==
  LET f == FileName(job.URL) IN
  IF job.Type \in {"css", "js", "json"}
  THEN [dir |-> "output/assets/",
        file |-> IF f.ext = job.Type THEN <<f.name, f.ext>>
                 ELSE <<f.name, f.ext, job.Type>>]
  ELSE IF job.Type = "image"
  THEN [dir |-> "output/assets/images/",
        file |-> IF f.ext = "" THEN <<f.name, ContentTypeExt>>
                 ELSE <<f.name, f.ext>>]
  ELSE [dir |-> "output/assets/fonts/", file |-> <<f.name, f.ext>>]

(***************************************************************************)
(* Text.  A string that the code searches and replaces in is the sequence  *)
(* of its tokens: "https://x/d/s.css" is https : // x / d / s . css.       *)
(***************************************************************************)
\* name.ext, name.ext.type: the parts that are not empty, joined by "."
RECURSIVE DotJoin(_)
DotJoin(parts) ==
  IF parts = <<>> THEN <<>>
  ELSE IF Head(parts) = "" THEN DotJoin(Tail(parts))
  ELSE LET rest == DotJoin(Tail(parts))
       IN IF rest = <<>> THEN <<Head(parts)>> ELSE <<Head(parts), ".">> \o rest

RECURSIVE PathText(_)
PathText(segs) ==
  IF segs = <<>> THEN <<>>
  ELSE LET t == DotJoin(<<Head(segs).name, Head(segs).ext>>)
       IN IF Tail(segs) = <<>> THEN t ELSE t \o <<"/">> \o PathText(Tail(segs))

\* the reference as it is written in the document (attr.Val, OriginalPath)
RefText(ref) ==
  (IF ref.scheme = "" THEN <<>> ELSE <<ref.scheme, ":">>) \o
  (IF ref.host = "" THEN <<>> ELSE <<"//", ref.host>>) \o
  (IF ref.rooted THEN <<"/">> ELSE <<>>) \o PathText(ref.segs)

\* "output/assets/" + filename, "output/assets/images/" + filename, ...
DirText(dir) ==
  IF dir = "output/assets/" THEN <<"output", "/", "assets", "/">>
  ELSE IF dir = "output/assets/images/"
  THEN <<"output", "/", "assets", "/", "images", "/">>
  ELSE IF dir = "output/assets/fonts/"
  THEN <<"output", "/", "assets", "/", "fonts", "/">>
  ELSE <<>>

LocalText(path) == DirText(path.dir) \o DotJoin(path.file)

\* strings.TrimPrefix
TrimPrefix(s, prefix) ==
  IF Len(s) >= Len(prefix) /\ SubSeq(s, 1, Len(prefix)) = prefix
  THEN SubSeq(s, Len(prefix) + 1, Len(s)) ELSE s

\* strings.TrimPrefix(localPath, "output/")
RelativePath(path) == TrimPrefix(LocalText(path), <<"output", "/">>)

\* strings.ReplaceAll for a non-empty old: the matches are found from left to
\* right, do not overlap, and the replaced text is not searched again
RECURSIVE ReplaceAll(_, _, _)
ReplaceAll(s, old, new) ==
  IF old = <<>> \/ Len(s) < Len(old) THEN s
  ELSE IF SubSeq(s, 1, Len(old)) = old
  THEN new \o ReplaceAll(SubSeq(s, Len(old) + 1, Len(s)), old, new)
  ELSE <<Head(s)>> \o ReplaceAll(Tail(s), old, new)

\* the references of an element in the order they are written: the value of
\* href, src, data-src and content, the URLs of srcset and style, the url(...)
\* of a style element
RECURSIVE AttrRefs(_)
AttrRefs(attrs) ==
  IF attrs = <<>> THEN <<>>
  ELSE LET a == Head(attrs)
           here == IF a.key \in {"href", "src", "data-src", "content"}
                   THEN <<a.val>>
                   ELSE IF a.key \in {"srcset", "style"} THEN a.val ELSE <<>>
       IN here \o AttrRefs(Tail(attrs))

RECURSIVE Occurrences(_)
Occurrences(d) ==
  IF d = <<>> THEN <<>>
  ELSE AttrRefs(Head(d).attrs) \o Head(d).text \o Occurrences(Tail(d))

\* htmlContent, reduced to its references: entry i is the text of the i-th
\* reference of the document
DocText(d) == [i \in DOMAIN Occurrences(d) |-> RefText(Occurrences(d)[i])]

\* html.EscapeString, which html.Render applies to text and attribute values
EscapeToken(t) ==
  IF t = "&" THEN "&amp;"
  ELSE IF t = "<" THEN "&lt;"
  ELSE IF t = ">" THEN "&gt;"
  ELSE IF t = "\"" THEN "&#34;"
  ELSE IF t = "'" THEN "&#39;"
  ELSE t

EscapeString(s) == [i \in DOMAIN s |-> EscapeToken(s[i])]

\* one iteration of the range over the map in updateHTMLWithLocalPaths: the
\* entry may be any of those left, its original path is replaced everywhere
RangeStep(configs, m) ==
  UNION {{[left |-> c.left \ {k},
           text |-> [i \in DOMAIN c.text |->
                       ReplaceAll(c.text[i], RefText(k), RelativePath(m[k]))]] :
            k \in c.left} : c \in configs}

RECURSIVE RangeSteps(_, _, _)
RangeSteps(configs, m, n) ==
  IF n = 0 THEN configs ELSE RangeSteps(RangeStep(configs, m), m, n - 1)

\* updateHTMLWithLocalPaths: the texts it may return, one for every order in
\* which the range over the map may yield the entries
updateHTMLWithLocalPaths(htmlContent, m) ==
  {c.text : c \in RangeSteps({[left |-> DOMAIN m, text |-> htmlContent]}, m,
                             Cardinality(DOMAIN m))}

(***************************************************************************)
(* State.                                                                  *)
(***************************************************************************)
VARIABLES
  doc,            \* htmlContent
  maxWorkers,     \* concurrency
  pc,             \* where LocalizeAssets is
  allJobs,        \* the jobs found by discovery
  idx,            \* jobs handed to AddJob so far
  jobs,           \* cd.jobs: buffered channel
  jobsClosed,     \* close(cd.jobs) was executed
  results,        \* cd.results: buffered channel
  resultsClosed,  \* close(cd.results) was executed
  wg,             \* cd.wg
  wpc,            \* where each worker goroutine is
  wjob,           \* the job a worker holds
  wtodo,          \* the secondary fetches a worker still has to make
  wres,           \* the result a worker is sending
  retryTasks,     \* the retry goroutines that have not yet sent their job
  closer,         \* the goroutine of GetResults: wg.Wait(); close(results)
  urlMap,         \* the map GetResults builds
  totalJobs,      \* cd.totalJobs
  completedJobs,  \* cd.completedJobs
  panicked,       \* a goroutine sent on the closed job channel
  attempts,       \* history: calls of processJob per submitted job
  recorded,       \* history: results GetResults received per submitted job
  failuresLeft,   \* failing fetches the network may still produce
  html,           \* the document text, one entry per reference occurrence
  secondary,      \* history: the fetches made while transforming a body
  fn,             \* the function a single call is made to
  arg,            \* the arguments of that call
  out,            \* what the call returned
  files,          \* the files under output/: the chunks each one holds
  writeFailuresLeft, \* failing os.WriteFile calls the disk may still produce
  unwritable,     \* history: the jobs whose os.WriteFile failed
  pd              \* the ConcurrentDownloader with two priority queues

vars == <<doc, maxWorkers, pc, allJobs, idx, jobs, jobsClosed, results,
          resultsClosed, wg, wpc, wjob, wtodo, wres, retryTasks, closer,
          urlMap, totalJobs, completedJobs, panicked, attempts, recorded,
          failuresLeft, html, secondary, fn, arg, out, files,
          writeFailuresLeft, unwritable, pd>>

Workers == 1..MaxWorkersBound
NoJob == DownloadJob(EmptyRef, "", EmptyRef)
NoResult == DownloadResult(NoJob, NoPath, FALSE)
EmptyMap == [k \in {} |-> NoPath]

\* a job channel with one slot too many
JobsCap_OneMore(n) == n * QueueFactor + 1

\* make(chan DownloadJob, maxWorkers*4), make(chan DownloadResult, maxWorkers*4)
JobsCap(n) == n * QueueFactor
ResultsCap(n) == n * QueueFactor

\* a Start loop that runs once too often
StartedWorkers_OneMore(n) == 1..(n + 1)

\* for i := 0; i < cd.MaxWorkers; i++ { cd.wg.Add(1); go cd.worker() }
StartedWorkers(n) == 1..n

\* no call has returned yet
NoOutput == [done |-> FALSE]

\* a run of LocalizeAssets: no single function is called on its own
NoCall == fn = "none" /\ arg = <<>> /\ out = NoOutput

\* no downloader with priority queues was made
NoDownloader == [pc |-> "none"]

\* no file has been written yet
NoFiles == [p \in {} |-> <<>>]

InitProgram(d, n, f) ==
  /\ files = NoFiles
  /\ unwritable = {}
  /\ doc = d
  /\ maxWorkers = n
  /\ pc = "collect"
  /\ allJobs = <<>>
  /\ idx = 0
  /\ jobs = <<>>
  /\ jobsClosed = FALSE
  /\ results = <<>>
  /\ resultsClosed = FALSE
  /\ wg = 0
  /\ wpc = [w \in Workers |-> "unborn"]
  /\ wjob = [w \in Workers |-> NoJob]
  /\ wtodo = [w \in Workers |-> <<>>]
  /\ wres = [w \in Workers |-> NoResult]
  /\ retryTasks = {}
  /\ closer = "none"
  /\ urlMap = EmptyMap
  /\ totalJobs = 0
  /\ completedJobs = 0
  /\ panicked = FALSE
  /\ attempts = [k \in {} |-> 0]
  /\ recorded = [k \in {} |-> 0]
  /\ failuresLeft = f
  /\ html = DocText(d)
  /\ secondary = {}

InitWith(d, n, f) ==
  /\ InitProgram(d, n, f) /\ NoCall
  /\ writeFailuresLeft = 0 /\ pd = NoDownloader

Init == \E d \in Docs, n \in 1..MaxWorkersBound : InitWith(d, n, MaxFailures)

\* pages with up to MaxLoadJobs assets, scraped by one worker
InitLoad ==
  \E k \in 1..MaxLoadJobs : InitWith(LoadDoc(k), 1, MaxLoadFailures)

\* pages with overlapping references, scraped by one worker
InitRewrite ==
  \E d \in RewriteDocs : InitWith(d, 1, MaxRewriteFailures)

(***************************************************************************)
(* LocalizeAssets, the main goroutine.                                     *)
(***************************************************************************)
Alive == ~panicked

Collect_AlwaysStart ==
  /\ Alive /\ pc = "collect"
  /\ \E found \in {collectAllAssetJobs(doc, Base)} :
     LET keys == {JobKey(found[i]) : i \in DOMAIN found}
     IN /\ allJobs' = found
        /\ attempts' = [k \in keys |-> 0]
        /\ recorded' = [k \in keys |-> 0]
        /\ pc' = "start"
  /\ UNCHANGED <<doc, maxWorkers, idx, jobs, jobsClosed, results,
                 resultsClosed, wg, wpc, wjob, wtodo, wres, retryTasks,
                 closer, urlMap, totalJobs, completedJobs, panicked,
                 failuresLeft>>
  /\ UNCHANGED <<html, secondary, fn, arg, out, files, writeFailuresLeft,
                 unwritable, pd>>

\* Phase 1: allJobs := collectAllAssetJobs(...); no job: return the document
Collect ==
  /\ Alive /\ pc = "collect"
  /\ \E found \in {collectAllAssetJobs(doc, Base)} :
     LET keys == {JobKey(found[i]) : i \in DOMAIN found}
     IN /\ allJobs' = found
        /\ attempts' = [k \in keys |-> 0]
        /\ recorded' = [k \in keys |-> 0]
        /\ pc' = IF found = <<>> THEN "done" ELSE "start"
  /\ UNCHANGED <<doc, maxWorkers, idx, jobs, jobsClosed, results,
                 resultsClosed, wg, wpc, wjob, wtodo, wres, retryTasks,
                 closer, urlMap, totalJobs, completedJobs, panicked,
                 failuresLeft>>
  /\ UNCHANGED <<html, secondary, fn, arg, out, files, writeFailuresLeft,
                 unwritable, pd>>

\* NewConcurrentDownloader(concurrency); downloader.Start()
Start ==
  /\ Alive /\ pc = "start"
  /\ wpc' = [w \in Workers |->
               IF w \in StartedWorkers(maxWorkers) THEN "recv" ELSE wpc[w]]
  /\ wg' = wg + Cardinality(StartedWorkers(maxWorkers))
  /\ pc' = "add"
  /\ UNCHANGED <<doc, maxWorkers, allJobs, idx, jobs, jobsClosed, results,
                 resultsClosed, wjob, wtodo, wres, retryTasks, closer, urlMap,
                 totalJobs, completedJobs, panicked, attempts, recorded,
                 failuresLeft>>
  /\ UNCHANGED <<html, secondary, fn, arg, out, files, writeFailuresLeft,
                 unwritable, pd>>

\* AddJob, first statement: atomic.AddInt64(&cd.totalJobs, 1)
AddJob ==
  /\ Alive /\ pc = "add" /\ idx < Len(allJobs)
  /\ totalJobs' = totalJobs + 1
  /\ pc' = "send"
  /\ UNCHANGED <<doc, maxWorkers, allJobs, idx, jobs, jobsClosed, results,
                 resultsClosed, wg, wpc, wjob, wtodo, wres, retryTasks,
                 closer, urlMap, completedJobs, panicked, attempts, recorded,
                 failuresLeft>>
  /\ UNCHANGED <<html, secondary, fn, arg, out, files, writeFailuresLeft,
                 unwritable, pd>>

\* a send on a buffered channel that is open: possible when a slot is free
CanSend(ch, cap) == Len(ch) < cap

\* AddJob, second statement: cd.jobs <- job
AddJobSend ==
  /\ Alive /\ pc = "send"
  /\ CanSend(jobs, JobsCap(maxWorkers))
  /\ jobs' = Append(jobs, allJobs[idx + 1])
  /\ idx' = idx + 1
  /\ pc' = "add"
  /\ UNCHANGED <<doc, maxWorkers, allJobs, jobsClosed, results, resultsClosed,
                 wg, wpc, wjob, wtodo, wres, retryTasks, closer, urlMap,
                 totalJobs, completedJobs, panicked, attempts, recorded,
                 failuresLeft>>
  /\ UNCHANGED <<html, secondary, fn, arg, out, files, writeFailuresLeft,
                 unwritable, pd>>

\* downloader.FinishJobs(): close(cd.jobs)
FinishJobs ==
  /\ Alive /\ pc = "add" /\ idx = Len(allJobs)
  /\ jobsClosed' = TRUE
  /\ pc' = "getresults"
  /\ UNCHANGED <<doc, maxWorkers, allJobs, idx, jobs, results, resultsClosed,
                 wg, wpc, wjob, wtodo, wres, retryTasks, closer, urlMap,
                 totalJobs, completedJobs, panicked, attempts, recorded,
                 failuresLeft>>
  /\ UNCHANGED <<html, secondary, fn, arg, out, files, writeFailuresLeft,
                 unwritable, pd>>

\* GetResults: go func() { cd.wg.Wait(); close(cd.results) }()
GetResults ==
  /\ Alive /\ pc = "getresults"
  /\ closer' = "wait"
  /\ pc' = "range"
  /\ UNCHANGED <<doc, maxWorkers, allJobs, idx, jobs, jobsClosed, results,
                 resultsClosed, wg, wpc, wjob, wtodo, wres, retryTasks, urlMap,
                 totalJobs, completedJobs, panicked, attempts, recorded,
                 failuresLeft>>
  /\ UNCHANGED <<html, secondary, fn, arg, out, files, writeFailuresLeft,
                 unwritable, pd>>

\* the goroutine of GetResults once cd.wg.Wait() returns
CloseResults ==
  /\ Alive /\ closer = "wait" /\ wg = 0
  /\ resultsClosed' = TRUE
  /\ closer' = "done"
  /\ UNCHANGED <<doc, maxWorkers, pc, allJobs, idx, jobs, jobsClosed, results,
                 wg, wpc, wjob, wtodo, wres, retryTasks, urlMap, totalJobs,
                 completedJobs, panicked, attempts, recorded, failuresLeft>>
  /\ UNCHANGED <<html, secondary, fn, arg, out, files, writeFailuresLeft,
                 unwritable, pd>>

\* urlMap[result.Job.OriginalPath] = result.LocalPath
MapPut(m, k, v) == [x \in DOMAIN m \cup {k} |-> IF x = k THEN v ELSE m[x]]

\* a loop body that stores the path of every result
Collected_Unconditional(m, result) ==
  MapPut(m, result.Job.OriginalPath, result.LocalPath)

\* if result.Success { urlMap[result.Job.OriginalPath] = result.LocalPath }
Collected(m, result) ==
  IF result.Success
  THEN MapPut(m, result.Job.OriginalPath, result.LocalPath)
  ELSE m

\* one iteration of: for result := range cd.results
ReceiveResult ==
  /\ Alive /\ pc = "range" /\ results # <<>>
  /\ LET result == Head(results) IN
       /\ urlMap' = Collected(urlMap, result)
       /\ recorded' = [recorded EXCEPT ![JobKey(result.Job)] = @ + 1]
  /\ results' = Tail(results)
  /\ UNCHANGED <<doc, maxWorkers, pc, allJobs, idx, jobs, jobsClosed,
                 resultsClosed, wg, wpc, wjob, wtodo, wres, retryTasks, closer,
                 totalJobs, completedJobs, panicked, attempts, failuresLeft>>
  /\ UNCHANGED <<html, secondary, fn, arg, out, files, writeFailuresLeft,
                 unwritable, pd>>

\* the range loop ends on the closed, drained channel: GetResults returns
ReturnResults ==
  /\ Alive /\ pc = "range" /\ results = <<>> /\ resultsClosed
  /\ pc' = "inlinejs"
  /\ UNCHANGED <<doc, maxWorkers, allJobs, idx, jobs, jobsClosed, results,
                 resultsClosed, wg, wpc, wjob, wtodo, wres, retryTasks, closer,
                 urlMap, totalJobs, completedJobs, panicked, attempts,
                 recorded, failuresLeft>>
  /\ UNCHANGED <<html, secondary, fn, arg, out, files, writeFailuresLeft,
                 unwritable, pd>>

\* Phase 3, processInlineJavaScript: html.Parse, LocalizeJavaScriptURLs on
\* every script without src (the documents here have none), html.Render
ProcessInlineJavaScript ==
  /\ Alive /\ pc = "inlinejs"
  /\ html' = [i \in DOMAIN html |-> EscapeString(html[i])]
  /\ pc' = "rewrite"
  /\ UNCHANGED <<doc, maxWorkers, allJobs, idx, jobs, jobsClosed, results,
                 resultsClosed, wg, wpc, wjob, wtodo, wres, retryTasks, closer,
                 urlMap, totalJobs, completedJobs, panicked, attempts,
                 recorded, failuresLeft>>
  /\ UNCHANGED <<secondary, fn, arg, out, files, writeFailuresLeft,
                 unwritable, pd>>

\* Phase 4, updateHTMLWithLocalPaths, and the return of LocalizeAssets
UpdateHTML ==
  /\ Alive /\ pc = "rewrite"
  /\ html' \in updateHTMLWithLocalPaths(html, urlMap)
  /\ pc' = "done"
  /\ UNCHANGED <<doc, maxWorkers, allJobs, idx, jobs, jobsClosed, results,
                 resultsClosed, wg, wpc, wjob, wtodo, wres, retryTasks, closer,
                 urlMap, totalJobs, completedJobs, panicked, attempts,
                 recorded, failuresLeft>>
  /\ UNCHANGED <<secondary, fn, arg, out, files, writeFailuresLeft,
                 unwritable, pd>>

(***************************************************************************)
(* worker.                                                                 *)
(***************************************************************************)
\* for job := range cd.jobs, a job is buffered: result := cd.processJob(job)
TakeJob(w) ==
  /\ Alive /\ wpc[w] = "recv" /\ jobs # <<>>
  /\ wjob' = [wjob EXCEPT ![w] = Head(jobs)]
  /\ jobs' = Tail(jobs)
  /\ wpc' = [wpc EXCEPT ![w] = "fetch"]
  /\ attempts' = [attempts EXCEPT ![JobKey(Head(jobs))] = @ + 1]
  /\ UNCHANGED <<doc, maxWorkers, pc, allJobs, idx, jobsClosed, results,
                 resultsClosed, wg, wtodo, wres, retryTasks, closer, urlMap,
                 totalJobs, completedJobs, panicked, recorded, failuresLeft>>
  /\ UNCHANGED <<html, secondary, fn, arg, out, files, writeFailuresLeft,
                 unwritable, pd>>

\* the range loop ends on the closed, drained channel: defer cd.wg.Done()
WorkerExit(w) ==
  /\ Alive /\ wpc[w] = "recv" /\ jobs = <<>> /\ jobsClosed
  /\ wpc' = [wpc EXCEPT ![w] = "done"]
  /\ wg' = wg - 1
  /\ UNCHANGED <<doc, maxWorkers, pc, allJobs, idx, jobs, jobsClosed, results,
                 resultsClosed, wjob, wtodo, wres, retryTasks, closer, urlMap,
                 totalJobs, completedJobs, panicked, attempts, recorded,
                 failuresLeft>>
  /\ UNCHANGED <<html, secondary, fn, arg, out, files, writeFailuresLeft,
                 unwritable, pd>>

\* !result.Success && job.RetryCount < 3
ShouldRetry(result) == ~result.Success /\ result.Job.RetryCount < RetryLimit

Handle_Blocking(w, result) ==
  IF ShouldRetry(result)
  THEN /\ retryTasks' = retryTasks \cup
            {[job |-> [result.Job EXCEPT !.RetryCount = @ + 1]]}
       /\ wpc' = [wpc EXCEPT ![w] = "requeue"]
       /\ UNCHANGED <<wjob, wres, completedJobs>>
  ELSE /\ completedJobs' = completedJobs + 1
       /\ wres' = [wres EXCEPT ![w] = result]
       /\ wpc' = [wpc EXCEPT ![w] = "send"]
       /\ wjob' = [wjob EXCEPT ![w] = NoJob]
       /\ UNCHANGED retryTasks

\* what worker does with the result of processJob: re-queue the job through a
\* new goroutine and continue, or count the job and go on to send the result
Handle(w, result) ==
  IF ShouldRetry(result)
  THEN /\ retryTasks' = retryTasks \cup
            {[job |-> [result.Job EXCEPT !.RetryCount = @ + 1]]}
       /\ wpc' = [wpc EXCEPT ![w] = "recv"]
       /\ wjob' = [wjob EXCEPT ![w] = NoJob]
       /\ UNCHANGED <<wres, completedJobs>>
  ELSE /\ completedJobs' = completedJobs + 1
       /\ wres' = [wres EXCEPT ![w] = result]
       /\ wpc' = [wpc EXCEPT ![w] = "send"]
       /\ wjob' = [wjob EXCEPT ![w] = NoJob]
       /\ UNCHANGED retryTasks

\* the fetch of the job's URL fails: processJob returns the error; a URL
\* that cannot be parsed fails in client.Get every time
FetchFail(w) ==
  /\ Alive /\ wpc[w] = "fetch"
  /\ failuresLeft > 0 \/ wjob[w].URL.bad
  /\ failuresLeft' = IF wjob[w].URL.bad THEN failuresLeft ELSE failuresLeft - 1
  /\ Handle(w, DownloadResult(wjob[w], NoPath, FALSE))
  /\ UNCHANGED <<doc, maxWorkers, pc, allJobs, idx, jobs, jobsClosed, results,
                 resultsClosed, wg, wtodo, closer, urlMap, totalJobs, panicked,
                 attempts, recorded>>
  /\ UNCHANGED <<html, secondary, fn, arg, out, files, writeFailuresLeft,
                 unwritable, pd>>

\* the fetch of the job's URL succeeds and the body needs no further fetch:
\* the file is written and processJob returns the local path
FetchDone(w) ==
  /\ Alive /\ wpc[w] = "fetch" /\ ~wjob[w].URL.bad
  /\ SecondaryFetches(wjob[w].URL, wjob[w].Type, Base) = <<>>
  /\ Handle(w, DownloadResult(wjob[w], LocalPathOf(wjob[w]), TRUE))
  /\ UNCHANGED <<doc, maxWorkers, pc, allJobs, idx, jobs, jobsClosed, results,
                 resultsClosed, wg, wtodo, closer, urlMap, totalJobs, panicked,
                 attempts, recorded, failuresLeft>>
  /\ UNCHANGED <<html, secondary, fn, arg, out, files, writeFailuresLeft,
                 unwritable, pd>>

\* the fetch of the job's URL succeeds and the body names further resources:
\* the first of their fetches begins
FetchTransform(w) ==
  /\ Alive /\ wpc[w] = "fetch" /\ ~wjob[w].URL.bad
  /\ SecondaryFetches(wjob[w].URL, wjob[w].Type, Base) # <<>>
  /\ wtodo' = [wtodo EXCEPT ![w] = SecondaryFetches(wjob[w].URL, wjob[w].Type, Base)]
  /\ wpc' = [wpc EXCEPT ![w] = "transform"]
  /\ UNCHANGED <<doc, maxWorkers, pc, allJobs, idx, jobs, jobsClosed, results,
                 resultsClosed, wg, wjob, wres, retryTasks, closer, urlMap,
                 totalJobs, completedJobs, panicked, attempts, recorded,
                 failuresLeft>>
  /\ UNCHANGED <<html, secondary, fn, arg, out, files, writeFailuresLeft,
                 unwritable, pd>>

\* a secondary fetch ends; its error is swallowed (continue, or err == nil not
\* taken); a fetched stylesheet is itself scanned for url(...)
SecondaryDone(w, ok) ==
  /\ Alive /\ wpc[w] = "transform"
  /\ LET f == Head(wtodo[w])
         more == IF ok THEN SecondaryFetches(f.URL, f.Type, Base) ELSE <<>>
         rest == more \o Tail(wtodo[w])
     IN IF rest # <<>>
        THEN /\ wtodo' = [wtodo EXCEPT ![w] = rest]
             /\ UNCHANGED <<wpc, wjob, wres, retryTasks, completedJobs>>
        ELSE /\ wtodo' = [wtodo EXCEPT ![w] = <<>>]
             /\ Handle(w, DownloadResult(wjob[w], LocalPathOf(wjob[w]), TRUE))
  /\ secondary' = secondary \cup
       {[URL |-> Head(wtodo[w]).URL, Type |-> Head(wtodo[w]).Type, ok |-> ok]}
  /\ UNCHANGED <<doc, maxWorkers, pc, allJobs, idx, jobs, jobsClosed, results,
                 resultsClosed, wg, closer, urlMap, totalJobs, panicked,
                 attempts, recorded, failuresLeft>>
  /\ UNCHANGED <<html, fn, arg, out, files, writeFailuresLeft,
                 unwritable, pd>>

\* cd.results <- result
SendResult(w) ==
  /\ Alive /\ wpc[w] = "send"
  /\ CanSend(results, ResultsCap(maxWorkers))
  /\ results' = Append(results, wres[w])
  /\ wres' = [wres EXCEPT ![w] = NoResult]
  /\ wpc' = [wpc EXCEPT ![w] = "recv"]
  /\ UNCHANGED <<doc, maxWorkers, pc, allJobs, idx, jobs, jobsClosed,
                 resultsClosed, wg, wjob, wtodo, retryTasks, closer, urlMap,
                 totalJobs, completedJobs, panicked, attempts, recorded,
                 failuresLeft>>
  /\ UNCHANGED <<html, secondary, fn, arg, out, files, writeFailuresLeft,
                 unwritable, pd>>

(***************************************************************************)
(* The retry goroutine: time.Sleep(...); cd.jobs <- retryJob.  A task is in *)
(* retryTasks from its go statement until its send completes: it sleeps,   *)
(* then waits for a slot.  The sleep only delays the send.                 *)
(***************************************************************************)
RetrySend(t) ==
  /\ Alive /\ t \in retryTasks /\ ~jobsClosed
  /\ CanSend(jobs, JobsCap(maxWorkers))
  /\ jobs' = Append(jobs, t.job)
  /\ retryTasks' = retryTasks \ {t}
  /\ UNCHANGED <<doc, maxWorkers, pc, allJobs, idx, jobsClosed, results,
                 resultsClosed, wg, wpc, wjob, wtodo, wres, closer, urlMap,
                 totalJobs, completedJobs, panicked, attempts, recorded,
                 failuresLeft>>
  /\ UNCHANGED <<html, secondary, fn, arg, out, files, writeFailuresLeft,
                 unwritable, pd>>

\* a send on a closed channel panics, also one that was blocked when the
\* channel was closed; an unrecovered panic ends the process
RetryPanic(t) ==
  /\ Alive /\ t \in retryTasks /\ jobsClosed
  /\ panicked' = TRUE
  /\ UNCHANGED <<doc, maxWorkers, pc, allJobs, idx, jobs, jobsClosed, results,
                 resultsClosed, wg, wpc, wjob, wtodo, wres, retryTasks, closer,
                 urlMap, totalJobs, completedJobs, attempts, recorded,
                 failuresLeft>>
  /\ UNCHANGED <<html, secondary, fn, arg, out, files, writeFailuresLeft,
                 unwritable, pd>>

Next ==
  \/ Collect
  \/ Start
  \/ AddJob
  \/ AddJobSend
  \/ FinishJobs
  \/ GetResults
  \/ CloseResults
  \/ ReceiveResult
  \/ ReturnResults
  \/ ProcessInlineJavaScript
  \/ UpdateHTML
  \/ \E w \in Workers : TakeJob(w)
  \/ \E w \in Workers : WorkerExit(w)
  \/ \E w \in Workers : FetchFail(w)
  \/ \E w \in Workers : FetchDone(w)
  \/ \E w \in Workers : FetchTransform(w)
  \/ \E w \in Workers, ok \in BOOLEAN : SecondaryDone(w, ok)
  \/ \E w \in Workers : SendResult(w)
  \/ \E t \in retryTasks : RetrySend(t)
  \/ \E t \in retryTasks : RetryPanic(t)

Spec == Init /\ [][Next]_vars

SpecLoad == InitLoad /\ [][Next]_vars

SpecRewrite == InitRewrite /\ [][Next]_vars

\* pages of elements that give no job (a relative image, an inline script, a
\* stylesheet link with an empty href) and of elements that give one
QuietElems ==
  { Img(Rel("i", "png")), Elem("script", <<>>, <<>>),
    Link("stylesheet", EmptyRef),
    Link("stylesheet", Rel("s", "css")), Img(Abs("i", "svg")) }

QuietDocs == SeqsUpTo(QuietElems, MaxQuietElems) \ {<<>>}

InitQuiet ==
  \E d \in QuietDocs, n \in 1..MaxWorkersBound :
    InitWith(d, n, MaxQuietFailures)

SpecQuiet == InitQuiet /\ [][Next]_vars

\* n images whose URLs "https://x/%zN" no GET accepts; for n = 0 a
\* stylesheet and an image that can be fetched
RECURSIVE RetryDoc(_)
RetryDoc(n) ==
  IF n = 0 THEN <<Link("stylesheet", Rel("s", "css")), Img(Abs("i", "svg"))>>
  ELSE (IF n = 1 THEN <<>> ELSE RetryDoc(n - 1)) \o
       <<Img([MkRef("https", "x", TRUE, <<Seg("%z", ImgNames[n])>>)
                EXCEPT !.bad = TRUE])>>

\* a page whose assets can be fetched and a page with MaxRetryJobs images
\* whose every fetch fails, scraped by one worker
InitRetry == \E k \in {0, MaxRetryJobs} : InitWith(RetryDoc(k), 1, 0)

SpecRetry == InitRetry /\ [][Next]_vars

(***************************************************************************)
(* The writes to local storage, step by step.  os.WriteFile(name, data) is *)
(* os.OpenFile(name, O_WRONLY|O_CREATE|O_TRUNC), f.Write(data), f.Close(). *)
(* SpecStore runs two workers over images: what FetchDone does in one step *)
(* is OpenFile followed by WriteData here.                                 *)
(***************************************************************************)
\* references that url.Parse rejects: "https://x/%zz" and ":s.css"
BadAbs == [MkRef("https", "x", TRUE, <<Seg("%zz", "")>>) EXCEPT !.bad = TRUE]
BadRel == [MkRef("", "", FALSE, <<Seg(":s", "css")>>) EXCEPT !.bad = TRUE]

\* two images that have the same file name, and the two bad references
StoreElems ==
  {Img(Abs("i", "svg")), Img(AbsE("i", "svg")), Img(BadAbs),
   Link("stylesheet", BadRel)}

StoreDocs == SeqsUpTo(StoreElems, MaxStoreElems) \ {<<>>}

\* the body the server sends for a URL, chunk by chunk: the bodies under /d/
\* have two chunks, the others one
BodyOf(url) ==
  [i \in 1..(IF url.segs # <<>> /\ Head(url.segs) = Seg("d", "") THEN 2 ELSE 1)
     |-> [URL |-> url, chunk |-> i]]

\* a write of data at offset 0 of a file that holds old
Overwrite(old, data) == data \o SubSeq(old, Len(data) + 1, Len(old))

InitStore ==
  \E d \in StoreDocs :
    /\ InitProgram(d, 2, MaxStoreFailures) /\ NoCall
    /\ writeFailuresLeft = MaxWriteFailures /\ pd = NoDownloader

\* the fetch succeeded; os.WriteFile opens the file, which truncates it
OpenFile(w) ==
  /\ Alive /\ wpc[w] = "fetch" /\ ~wjob[w].URL.bad
  /\ SecondaryFetches(wjob[w].URL, wjob[w].Type, Base) = <<>>
  /\ files' = MapPut(files, LocalPathOf(wjob[w]), <<>>)
  /\ wpc' = [wpc EXCEPT ![w] = "write"]
  /\ UNCHANGED <<doc, maxWorkers, pc, allJobs, idx, jobs, jobsClosed, results,
                 resultsClosed, wg, wjob, wtodo, wres, retryTasks, closer,
                 urlMap, totalJobs, completedJobs, panicked, attempts,
                 recorded, failuresLeft>>
  /\ UNCHANGED <<html, secondary, fn, arg, out, writeFailuresLeft, unwritable, pd>>

\* os.WriteFile writes the body and closes the file; processJob returns the
\* local path
WriteData(w) ==
  /\ Alive /\ wpc[w] = "write"
  /\ files' = [files EXCEPT ![LocalPathOf(wjob[w])] =
                 Overwrite(@, BodyOf(wjob[w].URL))]
  /\ Handle(w, DownloadResult(wjob[w], LocalPathOf(wjob[w]), TRUE))
  /\ UNCHANGED <<doc, maxWorkers, pc, allJobs, idx, jobs, jobsClosed, results,
                 resultsClosed, wg, wtodo, closer, urlMap, totalJobs, panicked,
                 attempts, recorded, failuresLeft>>
  /\ UNCHANGED <<html, secondary, fn, arg, out, writeFailuresLeft, unwritable, pd>>

\* the fetch succeeded and os.WriteFile returns an error: processJob returns
\* it as it returns the error of a fetch
WriteFileFail(w) ==
  /\ Alive /\ wpc[w] = "fetch" /\ ~wjob[w].URL.bad
  /\ SecondaryFetches(wjob[w].URL, wjob[w].Type, Base) = <<>>
  /\ writeFailuresLeft > 0
  /\ writeFailuresLeft' = writeFailuresLeft - 1
  /\ unwritable' = unwritable \cup {JobKey(wjob[w])}
  /\ Handle(w, DownloadResult(wjob[w], NoPath, FALSE))
  /\ UNCHANGED <<doc, maxWorkers, pc, allJobs, idx, jobs, jobsClosed, results,
                 resultsClosed, wg, wtodo, closer, urlMap, totalJobs, panicked,
                 attempts, recorded, failuresLeft>>
  /\ UNCHANGED <<html, secondary, fn, arg, out, files, pd>>

NextStore ==
  \/ Collect
  \/ Start
  \/ AddJob
  \/ AddJobSend
  \/ FinishJobs
  \/ GetResults
  \/ CloseResults
  \/ ReceiveResult
  \/ ReturnResults
  \/ ProcessInlineJavaScript
  \/ UpdateHTML
  \/ \E w \in Workers : TakeJob(w)
  \/ \E w \in Workers : WorkerExit(w)
  \/ \E w \in Workers : FetchFail(w)
  \/ \E w \in Workers : OpenFile(w)
  \/ \E w \in Workers : WriteData(w)
  \/ \E w \in Workers : WriteFileFail(w)
  \/ \E w \in Workers : SendResult(w)
  \/ \E t \in retryTasks : RetrySend(t)
  \/ \E t \in retryTasks : RetryPanic(t)

SpecStore == InitStore /\ [][NextStore]_vars

(***************************************************************************)
(* Single calls.  SpecCalls calls one function once: fn names it, arg holds *)
(* its arguments and out what it returned.  No goroutine of LocalizeAssets *)
(* runs.                                                                   *)
(***************************************************************************)
program == <<doc, maxWorkers, pc, allJobs, idx, jobs, jobsClosed, results,
             resultsClosed, wg, wpc, wjob, wtodo, wres, retryTasks, closer,
             urlMap, totalJobs, completedJobs, panicked, attempts, recorded,
             failuresLeft, html, secondary, files, writeFailuresLeft,
             unwritable>>

Returns(v) == [done |-> TRUE, val |-> v]

\* the bases: directories (the root, one and two levels deep), a page, and a
\* base that has neither scheme nor host
Bases ==
  { Base,
    MkRef("https", "x", TRUE, <<EmptySeg>>),
    MkRef("https", "x", TRUE, <<Seg("d", ""), Seg("e", ""), EmptySeg>>),
    MkRef("https", "x", TRUE, <<Seg("d", ""), Seg("index", "html")>>),
    MkRef("", "", FALSE, <<Seg("d", ""), EmptySeg>>) }

PathSegs == {Seg("a", ""), Seg("s", "css"), Dot, DotDot, EmptySeg}

\* the references url.Parse accepts: relative (a path that does not begin
\* with an empty segment, or no path), rooted, //host/path and
\* https://host/path, and those it rejects
Refs ==
  LET paths == SeqsUpTo(PathSegs, MaxSegs)
  IN {MkRef("", "", FALSE, p) : p \in {q \in paths : q = <<>> \/ Head(q) # EmptySeg}}
     \cup {MkRef("", "", TRUE, p) : p \in paths \ {<<>>}}
     \cup {MkRef(sc, "x", p # <<>>, p) : sc \in {"", "https"}, p \in paths}
     \cup {[MkRef("", "", FALSE, p) EXCEPT !.bad = TRUE] : p \in paths \ {<<>>}}

ResolveURLArgs == [base : Bases, ref : Refs]

CallResolveURL ==
  /\ fn = "ResolveURL" /\ ~out.done
  /\ out' = Returns(ResolveURL(arg.base, arg.ref))
  /\ UNCHANGED <<program, pd, fn, arg>>

(***************************************************************************)
(* utils.RemoveSourceMapReferences.  A body is the sequence of its tokens: *)
(* the openings "/*#" and "//#", the text "sourceMappingURL=", the closing *)
(* "*/", "sp" (blanks), "nl" (a line break) and "x" (any other text).      *)
(***************************************************************************)
ContentTokens == {"/*#", "//#", "sourceMappingURL=", "*/", "sp", "nl", "x"}

Contents == SeqsUpTo(ContentTokens, MaxContentLen)

\* \s matches blanks and line breaks, . everything but a line break
IsSpace(t) == t \in {"sp", "nl"}

\* what is left after \s*
RECURSIVE SkipSpace(_)
SkipSpace(s) ==
  IF s # <<>> /\ IsSpace(Head(s)) THEN SkipSpace(Tail(s)) ELSE s

\* .*?\*/ : the tokens up to and including the first "*/" of the line, 0 when
\* the line has none
RECURSIVE LazyToClose(_)
LazyToClose(s) ==
  IF s = <<>> \/ Head(s) = "nl" THEN 0
  ELSE IF Head(s) = "*/" THEN 1
  ELSE LET n == LazyToClose(Tail(s)) IN IF n = 0 THEN 0 ELSE n + 1

\* .* : the tokens up to the end of the line
RECURSIVE ToLineEnd(_)
ToLineEnd(s) ==
  IF s = <<>> \/ Head(s) = "nl" THEN 0 ELSE 1 + ToLineEnd(Tail(s))

\* the length of the match of
\* (/\*#\s*sourceMappingURL=.*?\*/|//#\s*sourceMappingURL=.*)
\* at the beginning of s, 0 when there is none
MatchLen(s) ==
  IF s = <<>> \/ Head(s) \notin {"/*#", "//#"} THEN 0
  ELSE LET rest == SkipSpace(Tail(s))
           upToName == Len(s) - Len(rest) + 1
       IN IF rest = <<>> \/ Head(rest) # "sourceMappingURL=" THEN 0
          ELSE IF Head(s) = "//#" THEN upToName + ToLineEnd(Tail(rest))
          ELSE IF LazyToClose(Tail(rest)) = 0 THEN 0
          ELSE upToName + LazyToClose(Tail(rest))

\* re.ReplaceAllString(content, ""): the matches are taken from left to right
RECURSIVE RemoveSourceMapReferences(_)
RemoveSourceMapReferences(content) ==
  IF content = <<>> THEN <<>>
  ELSE IF MatchLen(content) > 0
  THEN RemoveSourceMapReferences(
         SubSeq(content, MatchLen(content) + 1, Len(content)))
  ELSE <<Head(content)>> \o RemoveSourceMapReferences(Tail(content))

CallRemoveSourceMapReferences ==
  /\ fn = "RemoveSourceMapReferences" /\ ~out.done
  /\ out' = Returns(RemoveSourceMapReferences(arg.content))
  /\ UNCHANGED <<program, pd, fn, arg>>

(***************************************************************************)
(* LocalizeSrcset.  The srcset is a text: the tokens of its URLs, "sp" for *)
(* a blank, "," and the descriptors.                                       *)
(***************************************************************************)
\* strings.Split(s, sep) for a separator of one token
RECURSIVE Split(_, _)
Split(s, sep) ==
  IF s = <<>> THEN << <<>> >>
  ELSE LET r == Split(Tail(s), sep)
       IN IF Head(s) = sep THEN << <<>> >> \o r
          ELSE << <<Head(s)>> \o Head(r) >> \o Tail(r)

RECURSIVE TrimLeft(_)
TrimLeft(s) == IF s # <<>> /\ Head(s) = "sp" THEN TrimLeft(Tail(s)) ELSE s

RECURSIVE TrimRight(_)
TrimRight(s) == IF s # <<>> /\ Last(s) = "sp" THEN TrimRight(Front(s)) ELSE s

\* strings.TrimSpace
TrimSpace(s) == TrimRight(TrimLeft(s))

\* strings.Fields
Fields(s) == SelectSeq(Split(s, "sp"), LAMBDA part : part # <<>>)

\* strings.Join
RECURSIVE Join(_, _)
Join(parts, sep) ==
  IF parts = <<>> THEN <<>>
  ELSE IF Tail(parts) = <<>> THEN Head(parts)
  ELSE Head(parts) \o sep \o Join(Tail(parts), sep)

\* strings.HasPrefix
HasPrefix(s, prefix) ==
  Len(s) >= Len(prefix) /\ SubSeq(s, 1, Len(prefix)) = prefix

\* one path segment as it is read back from a text
SegOf(part) ==
  IF part = <<>> THEN EmptySeg
  ELSE IF Len(part) = 1 THEN Seg(part[1], "")
  ELSE Seg(part[1], part[3])

\* url.Parse of a text without query and fragment
ParseURL(text) ==
  LET hasScheme == Len(text) >= 2 /\ text[2] = ":"
      afterScheme == IF hasScheme THEN SubSeq(text, 3, Len(text)) ELSE text
      hasHost == Len(afterScheme) >= 2 /\ afterScheme[1] = "//"
      afterHost == IF hasHost THEN SubSeq(afterScheme, 3, Len(afterScheme))
                   ELSE afterScheme
      rooted == afterHost # <<>> /\ Head(afterHost) = "/"
      path == IF rooted THEN Tail(afterHost) ELSE afterHost
      parts == Split(path, "/")
  IN MkRef(IF hasScheme THEN text[1] ELSE "",
           IF hasHost THEN afterScheme[2] ELSE "",
           rooted,
           IF path = <<>> /\ ~rooted THEN <<>>
           ELSE [i \in 1..Len(parts) |-> SegOf(parts[i])])

\* DownloadImage(imageURL) when the GET of imageURL answers 200 exactly for
\* the URLs of up: the file name is the last segment of the path, with the
\* extension of the Content-Type when it has none
DownloadImage(imageURL, up) ==
  LET f == FileName(imageURL) IN
  IF imageURL \in up
  THEN [ok |-> TRUE,
        path |-> [dir |-> "output/assets/images/",
                  file |-> IF f.ext = "" THEN <<f.name, ContentTypeExt>>
                           ELSE <<f.name, f.ext>>]]
  ELSE [ok |-> FALSE, path |-> NoPath]

\* an entry whose download failed is left out
LocalizedEntry_DropFailed(entry, base, up) ==
  LET parts == Fields(entry) IN
  IF entry = <<>> \/ parts = <<>> THEN <<>>
  ELSE LET imageURL == parts[1]
           descriptor == IF Len(parts) > 1
                         THEN <<"sp">> \o Join(Tail(parts), <<"sp">>)
                         ELSE <<>>
           resolvedURL == ResolveURL(base, ParseURL(imageURL))
           got == DownloadImage(resolvedURL, up)
       IN IF HasPrefix(imageURL, <<"http", ":", "//">>)
             \/ HasPrefix(imageURL, <<"https", ":", "//">>)
          THEN IF got.ok THEN <<RelativePath(got.path) \o descriptor>>
               ELSE <<>>
          ELSE <<entry>>

\* the body of the loop of LocalizeSrcset for one trimmed entry: what it
\* appends to localizedEntries
LocalizedEntry(entry, base, up) ==
  LET parts == Fields(entry) IN
  IF entry = <<>> \/ parts = <<>> THEN <<>>
  ELSE LET imageURL == parts[1]
           descriptor == IF Len(parts) > 1
                         THEN <<"sp">> \o Join(Tail(parts), <<"sp">>)
                         ELSE <<>>
           resolvedURL == ResolveURL(base, ParseURL(imageURL))
           got == DownloadImage(resolvedURL, up)
       IN IF HasPrefix(imageURL, <<"http", ":", "//">>)
             \/ HasPrefix(imageURL, <<"https", ":", "//">>)
          THEN IF got.ok THEN <<RelativePath(got.path) \o descriptor>>
               ELSE <<entry>>
          ELSE <<entry>>

RECURSIVE LocalizedEntries(_, _, _)
LocalizedEntries(entries, base, up) ==
  IF entries = <<>> THEN <<>>
  ELSE LocalizedEntry(TrimSpace(Head(entries)), base, up)
         \o LocalizedEntries(Tail(entries), base, up)

LocalizeSrcset(srcsetContent, base, up) ==
  IF srcsetContent = <<>> THEN [text |-> srcsetContent, err |-> "nil"]
  ELSE [text |-> Join(LocalizedEntries(Split(srcsetContent, ","), base, up),
                      <<",", "sp">>),
        err |-> "nil"]

\* the URLs of the srcsets explored: with and without extension, http and
\* https, one that is not absolute
SrcsetURLs ==
  {Abs("p", "png"), Abs("q", ""),
   MkRef("http", "x", TRUE, <<Seg("r", "png")>>), Rel("t", "png")}

\* an entry as it is written: its URL, its descriptor if any, with one blank
\* or, when wide, with blanks around the URL; the empty entry is <<>>
WrittenEntry(u, desc, wide) ==
  (IF wide THEN <<"sp">> ELSE <<>>) \o RefText(u) \o
  (IF desc = "" THEN <<>>
   ELSE (IF wide THEN <<"sp", "sp">> ELSE <<"sp">>) \o <<desc>>) \o
  (IF wide THEN <<"sp">> ELSE <<>>)

SrcsetEntries ==
  [url : SrcsetURLs, desc : {"", "2x"}, wide : BOOLEAN, empty : {FALSE}]
    \cup {[url |-> EmptyRef, desc |-> "", wide |-> FALSE, empty |-> TRUE]}

EntryText(e) ==
  IF e.empty THEN <<>> ELSE WrittenEntry(e.url, e.desc, e.wide)

SrcsetText(entries) ==
  Join([i \in 1..Len(entries) |-> EntryText(entries[i])], <<",">>)

LocalizeSrcsetArgs ==
  [entries : SeqsUpTo(SrcsetEntries, MaxSrcsetLen),
   base : {Base},
   up : SUBSET {u \in SrcsetURLs : HasHTTPPrefix(u)}]

CallLocalizeSrcset ==
  /\ fn = "LocalizeSrcset" /\ ~out.done
  /\ out' = Returns(LocalizeSrcset(SrcsetText(arg.entries), arg.base, arg.up))
  /\ UNCHANGED <<program, pd, fn, arg>>

(***************************************************************************)
(* LocalizeJavaScriptURLs.  A script body is a JSON-like object with one   *)
(* quoted URL under a key and some "name":value pairs.  The URL is a text  *)
(* whose tokens are its literal parts, "\\/" for an escaped and "/" for a   *)
(* plain separator, and "{name}" for a placeholder.                        *)
(***************************************************************************)
PlaceholderNames ==
  [x \in {"{banner_id}", "{type}", "{id}"} |->
     IF x = "{banner_id}" THEN "banner_id"
     ELSE IF x = "{type}" THEN "type" ELSE "id"]

IsPlaceholder(t) == t \in DOMAIN PlaceholderNames

\* "name":"val" when quoted, "name":val otherwise; user is the user_ prefix
Pair(user, name, quoted, val) ==
  [user |-> user, name |-> name, quoted |-> quoted, val |-> val]

ScriptPairs ==
  {Pair(FALSE, "banner_id", TRUE, "5"), Pair(TRUE, "banner_id", TRUE, "7"),
   Pair(TRUE, "banner_id", FALSE, "8"), Pair(FALSE, "consenttype", TRUE, "optin"),
   Pair(FALSE, "id", FALSE, "3")}

BannerTemplate == <<"banner-", "{banner_id}", "-", "{type}">>

ScriptURLs ==
  {<<"https", ":", "\\/", "\\/", "x", "\\/">> \o BannerTemplate \o <<".css">>,
   <<"https", ":", "\\/", "\\/", "x", "\\/">> \o BannerTemplate \o <<".js">>,
   <<"https", ":", "\\/", "\\/", "x", "\\/", "skin-", "{id}", ".css">>,
   <<"https", ":", "\\/", "\\/", "x", "\\/", "plain", ".css">>}

\* up: the GETs of this call are answered with 200
ScriptBodies ==
  [key : {"css_file", "style"}, url : ScriptURLs, pairs : SUBSET ScriptPairs,
   up : BOOLEAN]

\* strings.ReplaceAll(s, "\\/", "/")
Unescape(s) == [i \in DOMAIN s |-> IF s[i] = "\\/" THEN "/" ELSE s[i]]

\* strings.ReplaceAll of one token
Substitute(s, t, val) == [i \in DOMAIN s |-> IF s[i] = t THEN val ELSE s[i]]

\* strings.Contains
Contains(s, sub) ==
  \E i \in 1..(Len(s) - Len(sub) + 1) : SubSeq(s, i, i + Len(sub) - 1) = sub

\* the quoted string matches
\* "([^"]*\\?\/[^"]*\{[^}]+\}[^"]*\.(?:css|js)(?:\?[^"]*)?)"
IsTemplate(url) ==
  /\ url # <<>> /\ Last(url) \in {".css", ".js"}
  /\ \E i, j \in DOMAIN url :
       i < j /\ j < Len(url) /\ url[i] \in {"\\/", "/"} /\ IsPlaceholder(url[j])

\* templateRe.FindAllStringSubmatch, and cssFileRe when it finds nothing
TemplateMatches(body) ==
  IF IsTemplate(body.url) THEN <<body.url>>
  ELSE IF body.key = "css_file" /\ IsTemplate(body.url) THEN <<body.url>>
  ELSE <<>>

\* the first submatch of "name":\s*"([^"]+)" or "name":\s*(\d+) in the body,
\* "" when there is no match
FindValue(pairs, user, name, quoted) ==
  LET found == {q \in pairs : q.user = user /\ q.name = name
                                /\ q.quoted = quoted}
  IN IF found = {} THEN "" ELSE (CHOOSE q \in found : TRUE).val

RECURSIVE FirstValue(_)
FirstValue(vals) ==
  IF vals = <<>> THEN ""
  ELSE IF Head(vals) # "" THEN Head(vals) ELSE FirstValue(Tail(vals))

\* the value of a placeholder: consenttype for type, the first of the five
\* patterns that matches for any other name
PlaceholderValue(pairs, name) ==
  IF name = "type" THEN FindValue(pairs, FALSE, "consenttype", TRUE)
  ELSE FirstValue(<<FindValue(pairs, FALSE, name, TRUE),
                    FindValue(pairs, TRUE, name, TRUE),
                    FindValue(pairs, FALSE, name, FALSE),
                    FindValue(pairs, TRUE, name, FALSE),
                    FindValue(pairs, FALSE, "consenttype", TRUE)>>)

\* the loop over the placeholders of one template
RECURSIVE ResolvePlaceholders(_, _, _)
ResolvePlaceholders(resolvedURL, placeholders, pairs) ==
  IF placeholders = <<>> THEN resolvedURL
  ELSE LET value == PlaceholderValue(pairs, PlaceholderNames[Head(placeholders)])
       IN ResolvePlaceholders(
            IF value # "" THEN Substitute(resolvedURL, Head(placeholders), value)
            ELSE resolvedURL,
            Tail(placeholders), pairs)

\* utils.ResolveURL of an absolute URL given as a text: url.URL.String()
\* writes "{" and "}" of the path as %7B and %7D
ResolveURLText(url) ==
  [i \in DOMAIN url |->
     IF url[i] = "{banner_id}" THEN "%7Bbanner_id%7D"
     ELSE IF url[i] = "{type}" THEN "%7Btype%7D"
     ELSE IF url[i] = "{id}" THEN "%7Bid%7D"
     ELSE url[i]]

\* strings.TrimPrefix(localPath, "output/") of DownloadResource(url, "css"):
\* "assets/" and the last segment of the path, which ends with ".css"
RECURSIVE AfterLastSlash(_)
AfterLastSlash(url) ==
  IF url = <<>> \/ Last(url) = "/" THEN <<>>
  ELSE AfterLastSlash(Front(url)) \o <<Last(url)>>

\* url.Parse(url).Path holds "{" and "}" again
PathUnescape(url) ==
  [i \in DOMAIN url |->
     IF url[i] = "%7Bbanner_id%7D" THEN "{banner_id}"
     ELSE IF url[i] = "%7Btype%7D" THEN "{type}"
     ELSE IF url[i] = "%7Bid%7D" THEN "{id}"
     ELSE url[i]]

CssRelativePath(url) ==
  <<"assets/">> \o AfterLastSlash(PathUnescape(url))
    \o (IF Last(url) = ".css" THEN <<>> ELSE <<".css">>)

\* DownloadResource(url, "css", base) called with the state st of the call:
\* the GET is recorded, the quoted URL old of the body is replaced when the
\* download succeeds
AfterDownload(st, url, old, up) ==
  [fetches |-> Append(st.fetches, url),
   url |-> IF up /\ st.url = old THEN CssRelativePath(url) ELSE st.url]

\* the special handling of the Complianz banner
ComplianzBanner(body, st) ==
  LET bannerId == FindValue(body.pairs, TRUE, "banner_id", TRUE)
      consentType == FindValue(body.pairs, FALSE, "consenttype", TRUE)
      resolvedURL == Unescape(Substitute(Substitute(st.url, "{banner_id}",
                                                    bannerId),
                                         "{type}", consentType))
  IN IF /\ body.key = "css_file" /\ Contains(st.url, BannerTemplate)
        /\ bannerId # "" /\ consentType # ""
     THEN AfterDownload(st, resolvedURL, st.url, body.up)
     ELSE st

\* the loop over templateMatches
RECURSIVE TemplateLoop(_, _, _)
TemplateLoop(body, st, matches) ==
  IF matches = <<>> THEN st
  ELSE LET templateURL == Head(matches)
           unescapedURL == Unescape(templateURL)
           placeholders == SelectSeq(unescapedURL, IsPlaceholder)
           resolvedURL == ResolvePlaceholders(unescapedURL, placeholders,
                                              body.pairs)
       IN TemplateLoop(body,
            IF /\ \A i \in DOMAIN resolvedURL : ~IsPlaceholder(resolvedURL[i])
               /\ Contains(resolvedURL, <<".css">>)
            THEN AfterDownload(st, ResolveURLText(resolvedURL), templateURL,
                            body.up)
            ELSE st,
            Tail(matches))

\* the quoted string matches
\* "(https?:\\?\/\\?\/[^"]*\.(?:css|js|png|jpg|jpeg|gif|webp|svg)(?:\?[^"]*)?)"
IsDirectURL(url) ==
  /\ Len(url) >= 5
  /\ url[1] \in {"http", "https"} /\ url[2] = ":"
  /\ url[3] \in {"\\/", "/"} /\ url[4] \in {"\\/", "/"}
  /\ Last(url) \in {".css", ".js"}

\* the pass over the direct URLs that the body holds by now
GeneralPass(body, st) ==
  IF IsDirectURL(st.url) /\ Contains(Unescape(st.url), <<".css">>)
  THEN AfterDownload(st, ResolveURLText(Unescape(st.url)), st.url, body.up)
  ELSE st

\* the GETs the call issues for the URL of the body, in their order, the URL
\* as the returned content holds it, and the error
LocalizeJavaScriptURLs(body) ==
  LET templateMatches == TemplateMatches(body)
      st0 == [fetches |-> <<>>, url |-> body.url]
      st1 == ComplianzBanner(body, st0)
      st2 == TemplateLoop(body, st1, templateMatches)
      st3 == GeneralPass(body, st2)
  IN [fetches |-> st3.fetches, url |-> st3.url, err |-> "nil"]

CallLocalizeJavaScriptURLs ==
  /\ fn = "LocalizeJavaScriptURLs" /\ ~out.done
  /\ out' = Returns(LocalizeJavaScriptURLs(arg))
  /\ UNCHANGED <<program, pd, fn, arg>>

(***************************************************************************)
(* commands.ScrapeCommand: the -concurrency flag and its validation.       *)
(***************************************************************************)
DefaultConcurrency == 10  \* scrapeFlags.Int("concurrency", 10, ...)
ConcurrencyLimit == 50    \* *concurrency > 50

\* the command line: -concurrency absent, or given with a value at, next to
\* or between the limits
ConcurrencyValues == {-1, 0, 1, 2, 10, 49, 50, 51, 99, 100, 101}

ScrapeArgs ==
  {[given |-> FALSE, value |-> 0]} \cup [given : {TRUE}, value : ConcurrencyValues]

\* *concurrency after scrapeFlags.Parse
ParsedConcurrency(a) == IF a.given THEN a.value ELSE DefaultConcurrency

\* ScrapeCommand up to the end of the validation: os.Exit(1), or the worker
\* count that is handed to LocalizeAssets
ScrapeCommand(a) ==
  IF ParsedConcurrency(a) < 1 \/ ParsedConcurrency(a) > ConcurrencyLimit
  THEN [exit |-> 1, concurrency |-> 0]
  ELSE [exit |-> 0, concurrency |-> ParsedConcurrency(a)]

CallScrapeCommand ==
  /\ fn = "ScrapeCommand" /\ ~out.done
  /\ out' = Returns(ScrapeCommand(arg))
  /\ UNCHANGED <<program, pd, fn, arg>>

(***************************************************************************)
(* html.AddErrorSuppressionScript.  A page is the sequence of its tokens:  *)
(* "<head>" and "<header>" (tags that the pattern <head[^>]*> matches),     *)
(* "marker" (the text "Suppress localhost development server connection    *)
(* errors"), "nl" and "x" (any other text).                                *)
(***************************************************************************)
PageTokens == {"<head>", "<header>", "marker", "x"}

Pages == SeqsUpTo(PageTokens, MaxPageLen)

\* the script literal: it holds the marker in its first comment
SuppressionScript == <<"<script>", "nl", "marker", "x", "</script>">>

\* a match of (<head[^>]*>)
IsHeadTag(tok) == tok \in {"<head>", "<header>"}

\* re.ReplaceAllString(htmlContent, "$1\n"+suppressionScript)
RECURSIVE InsertAfterHead(_)
InsertAfterHead(page) ==
  IF page = <<>> THEN <<>>
  ELSE IF IsHeadTag(Head(page))
       THEN <<Head(page), "nl">> \o SuppressionScript \o InsertAfterHead(Tail(page))
       ELSE <<Head(page)>> \o InsertAfterHead(Tail(page))

AddErrorSuppressionScript_Always(htmlContent) == InsertAfterHead(htmlContent)

AddErrorSuppressionScript(htmlContent) ==
  IF \E i \in DOMAIN htmlContent : htmlContent[i] = "marker"
  THEN htmlContent
  ELSE InsertAfterHead(htmlContent)

\* one more application, to the page or to the result of the application
\* before; out.val lists the results so far
CallAddErrorSuppressionScript ==
  /\ fn = "AddErrorSuppressionScript"
  /\ IF out.done
     THEN /\ Len(out.val) < MaxApplications
          /\ out' = Returns(Append(out.val,
                       AddErrorSuppressionScript(out.val[Len(out.val)])))
     ELSE out' = Returns(<<AddErrorSuppressionScript(arg.html)>>)
  /\ UNCHANGED <<program, pd, fn, arg>>

(***************************************************************************)
(* LocalizeFontURLs.  The stylesheet is the sequence of the texts inside   *)
(* its url(...); up is the set of URLs whose GET succeeds.                 *)
(***************************************************************************)
\* a font and an image next to the stylesheet, a font and an image with
\* absolute URLs, a protocol-relative font, the first font by its absolute
\* URL, and a font whose reference begins with fonts/
CssRefs ==
  { Rel("f", "woff"), Rel("b", "png"), Abs("g", "ttf"), Abs("p", "png"),
    MkRef("", "x", TRUE, <<Seg("h", "svg")>>), Abs("f", "woff"),
    MkRef("", "", FALSE, <<Seg("fonts", ""), Seg("k", "woff")>>) }

Stylesheets == SeqsUpTo(CssRefs, MaxCssRefs) \ {<<>>}

\* "fonts/" + fontFilename
RelativeFontPath(fontURL) ==
  <<"fonts", "/">> \o DotJoin(<<FileName(fontURL).name, FileName(fontURL).ext>>)

\* fontDir + fontFilename
LocalFontPath(fontURL) ==
  [dir |-> "output/assets/fonts/",
   file |-> <<FileName(fontURL).name, FileName(fontURL).ext>>]

\* strings.ReplaceAll(cssContent, old, new)
ReplaceInCss(cssContent, old, new) ==
  [i \in DOMAIN cssContent |-> ReplaceAll(cssContent[i], old, new)]

\* one turn of the loop over matches: fontPath is match[2]
FontStep(st, fontPath, base, up) ==
  LET fontURL == FontURL(base, fontPath)
      relativeFontPath == RelativeFontPath(fontURL)
      replaced == ReplaceInCss(st.css, RefText(fontPath), relativeFontPath)
  IN IF fontURL.bad \/ fontURL \notin up
     THEN [st EXCEPT !.gets = Append(@, fontURL)]
     ELSE [gets |-> Append(st.gets, fontURL),
           written |-> st.written \cup {LocalFontPath(fontURL)},
           css |-> IF fontPath # fontURL
                   THEN ReplaceInCss(replaced, RefText(fontURL), relativeFontPath)
                   ELSE replaced]

RECURSIVE FontLoop(_, _, _, _)
FontLoop(st, matches, base, up) ==
  IF matches = <<>> THEN st
  ELSE FontLoop(FontStep(st, Head(matches), base, up), Tail(matches), base, up)

LocalizeFontURLs(refs, base, up) ==
  FontLoop([gets |-> <<>>, written |-> {},
            css |-> [i \in DOMAIN refs |-> RefText(refs[i])]],
           refs, base, up)

LocalizeFontURLsArgs ==
  UNION {[css : {c}, base : {Base},
          up : SUBSET {FontURL(Base, c[i]) : i \in DOMAIN c}] : c \in Stylesheets}

CallLocalizeFontURLs ==
  /\ fn = "LocalizeFontURLs" /\ ~out.done
  /\ out' = Returns(LocalizeFontURLs(arg.css, arg.base, arg.up))
  /\ UNCHANGED <<program, pd, fn, arg>>

(***************************************************************************)
(* collectAllAssetJobs on its own: documents whose elements have empty,    *)
(* relative, protocol-relative and absolute references.                    *)
(***************************************************************************)
ProtoRel(n, e) == MkRef("", "x", TRUE, <<Seg(n, e)>>)

Meta(property, content) ==
  Elem("meta", <<Attr("property", property), Attr("content", content)>>, <<>>)

ScanElems ==
  {Link(rel, EmptyRef) : rel \in {"stylesheet", "preload", "manifest", "icon"}}
  \cup {Link("preload", Rel("s", "css")), Link("icon", Rel("c", "ico"))}
  \cup {Script(EmptyRef), Elem("script", <<>>, <<>>), Script(Rel("a", "js"))}
  \cup {Img(r) : r \in {EmptyRef, Rel("i", "png"), ProtoRel("j", "png"),
                        Abs("p", "png")}}
  \cup {Elem("img", <<Attr("data-src", r)>>, <<>>) :
          r \in {EmptyRef, Rel("l", "png"), Abs("m", "png")}}
  \cup {Elem("img", <<Attr("srcset", <<Rel("q", "png"), Abs("r", "png")>>)>>, <<>>)}
  \cup {Meta("og:image", r) : r \in {Rel("o", "png"), Abs("o", "png")}}
  \cup {Elem("div", <<Attr("style", <<ProtoRel("b", "png"), Abs("b", "png")>>)>>,
              <<>>)}

ScanDocs == SeqsUpTo(ScanElems, MaxScanElems) \ {<<>>}

CallCollectAllAssetJobs ==
  /\ fn = "collectAllAssetJobs" /\ ~out.done
  /\ out' = Returns(collectAllAssetJobs(arg.doc, arg.base))
  /\ UNCHANGED <<program, pd, fn, arg>>

(***************************************************************************)
(* The ConcurrentDownloader with two priority queues, driven as            *)
(* LocalizeAssets drives it: Start, AddJob for every job, FinishJobs,       *)
(* GetResults.  pd holds the fields of the downloader, where the main      *)
(* goroutine is (pc, idx) and where each worker is (wpc, wjob).            *)
(***************************************************************************)
HighPriority == 0
LowPriority == 1

TierJob(id, type) == [id |-> id, Type |-> type, Priority |-> 0]

\* job.Priority after the switch of AddJob
AssignedPriority(job) ==
  IF job.Priority = 0
  THEN IF job.Type \in {"css", "js", "json"} THEN HighPriority ELSE LowPriority
  ELSE job.Priority

TierCap(n) == n * TierFactor

\* the queue AddJob sends the job to
RoutedQueue(job) ==
  IF AssignedPriority(job) = HighPriority THEN "highPriorityJobs"
  ELSE "lowPriorityJobs"

\* the jobs a caller can hand to AddJob: the Priority field left at its zero
\* value, or set by the caller to either priority
AddJobArgs ==
  [Type : {"css", "js", "json", "image", "font", "other"},
   set : {FALSE}, Priority : {0}]
  \cup [Type : {"css", "js", "json", "image", "font", "other"},
        set : {TRUE}, Priority : {HighPriority, LowPriority}]

CallAddJob ==
  /\ fn = "AddJob" /\ ~out.done
  /\ out' = Returns(RoutedQueue([Type |-> arg.Type, Priority |-> arg.Priority]))
  /\ UNCHANGED <<program, pd, fn, arg>>

\* the lists of jobs: up to MaxTierJobs stylesheets and images in any order
TierJobLists ==
  {[i \in 1..Len(types) |-> TierJob(i, types[i])] :
     types \in SeqsUpTo({"css", "image"}, MaxTierJobs) \ {<<>>}}

InitTier ==
  /\ InitProgram(<<>>, 1, 0) /\ NoCall /\ writeFailuresLeft = 0
  /\ \E n \in 1..MaxWorkersBound :
     \E list \in {l \in TierJobLists : Len(l) + 2 * (n - 1) <= MaxTierJobs} :
       pd = [assetJobs |-> list, MaxWorkers |-> n, pc |-> "start", idx |-> 0,
             highPriorityJobs |-> <<>>, lowPriorityJobs |-> <<>>,
             highClosed |-> FALSE, lowClosed |-> FALSE,
             results |-> <<>>, resultsClosed |-> FALSE,
             wpc |-> [w \in Workers |-> "unborn"],
             wjob |-> [w \in Workers |-> TierJob(0, "")],
             wok |-> [w \in Workers |-> FALSE],
             totalJobs |-> 0, completedJobs |-> 0,
             received |-> <<>>, failuresLeft |-> MaxTierFailures]

TierStep(next) == pd' = next /\ UNCHANGED <<program, fn, arg, out>>

\* downloader.Start()
TierStart ==
  /\ pd.pc = "start"
  /\ TierStep([pd EXCEPT !.pc = "add",
                         !.wpc = [w \in Workers |->
                                    IF w <= pd.MaxWorkers THEN "select"
                                    ELSE "unborn"]])

\* downloader.AddJob(job): the counters, then the send to the queue of the
\* job's priority, which waits for a free slot
TierAddJob ==
  /\ pd.pc = "add" /\ pd.idx < Len(pd.assetJobs)
  /\ LET job == [pd.assetJobs[pd.idx + 1] EXCEPT
                   !.Priority = AssignedPriority(pd.assetJobs[pd.idx + 1])]
     IN IF job.Priority = HighPriority
        THEN /\ Len(pd.highPriorityJobs) < TierCap(pd.MaxWorkers)
             /\ TierStep([pd EXCEPT !.highPriorityJobs = Append(@, job),
                                    !.idx = @ + 1, !.totalJobs = @ + 1])
        ELSE /\ Len(pd.lowPriorityJobs) < TierCap(pd.MaxWorkers)
             /\ TierStep([pd EXCEPT !.lowPriorityJobs = Append(@, job),
                                    !.idx = @ + 1, !.totalJobs = @ + 1])

\* FinishJobs: close(cd.highPriorityJobs)
TierCloseHigh ==
  /\ pd.pc = "add" /\ pd.idx = Len(pd.assetJobs)
  /\ TierStep([pd EXCEPT !.highClosed = TRUE, !.pc = "closeLow"])

\* FinishJobs: close(cd.lowPriorityJobs), and GetResults up to its range loop
TierCloseLow ==
  /\ pd.pc = "closeLow"
  /\ TierStep([pd EXCEPT !.lowClosed = TRUE, !.pc = "range"])

\* the goroutine of GetResults: cd.wg.Wait(); close(cd.results)
TierCloseResults ==
  /\ pd.pc = "range" /\ ~pd.resultsClosed
  /\ \A w \in 1..pd.MaxWorkers : pd.wpc[w] = "done"
  /\ TierStep([pd EXCEPT !.resultsClosed = TRUE])

\* for result := range cd.results
TierReceive ==
  /\ pd.pc = "range" /\ pd.results # <<>>
  /\ TierStep([pd EXCEPT !.results = Tail(@),
                         !.received = Append(@, Head(pd.results))])

TierReturn ==
  /\ pd.pc = "range" /\ pd.results = <<>> /\ pd.resultsClosed
  /\ TierStep([pd EXCEPT !.pc = "done"])

\* the outer select: a job is ready in the high-priority queue
SelectHigh(w) ==
  /\ pd.wpc[w] = "select" /\ pd.highPriorityJobs # <<>>
  /\ TierStep([pd EXCEPT !.highPriorityJobs = Tail(@),
                         !.wjob[w] = Head(pd.highPriorityJobs),
                         !.wpc[w] = "process"])

\* the outer select: the high-priority queue is closed and drained (!ok)
SelectHighClosed(w) ==
  /\ pd.wpc[w] = "select" /\ pd.highPriorityJobs = <<>> /\ pd.highClosed
  /\ TierStep([pd EXCEPT !.wpc[w] = "lowonce"])

\* the outer select: nothing to receive, default
SelectDefault(w) ==
  /\ pd.wpc[w] = "select" /\ pd.highPriorityJobs = <<>> /\ ~pd.highClosed
  /\ TierStep([pd EXCEPT !.wpc[w] = "wait"])

\* select { case <-low: ...; default: return } after the high-priority queue
\* was found closed: take a low-priority job if one is ready, else return
LowOnce(w) ==
  /\ pd.wpc[w] = "lowonce"
  /\ IF pd.lowPriorityJobs # <<>>
     THEN TierStep([pd EXCEPT !.lowPriorityJobs = Tail(@),
                             !.wjob[w] = Head(pd.lowPriorityJobs),
                             !.wpc[w] = "process"])
     ELSE TierStep([pd EXCEPT !.wpc[w] = "done"])

\* the select of the default branch waits on both queues and takes any case
\* that is ready: here the low-priority queue gives a job
WaitLow(w) ==
  /\ pd.wpc[w] = "wait" /\ pd.lowPriorityJobs # <<>>
  /\ TierStep([pd EXCEPT !.lowPriorityJobs = Tail(@),
                         !.wjob[w] = Head(pd.lowPriorityJobs),
                         !.wpc[w] = "process"])

\* ... the low-priority queue is closed and drained: return
WaitLowClosed(w) ==
  /\ pd.wpc[w] = "wait" /\ pd.lowPriorityJobs = <<>> /\ pd.lowClosed
  /\ TierStep([pd EXCEPT !.wpc[w] = "done"])

\* ... the high-priority queue gives a job
WaitHigh(w) ==
  /\ pd.wpc[w] = "wait" /\ pd.highPriorityJobs # <<>>
  /\ TierStep([pd EXCEPT !.highPriorityJobs = Tail(@),
                         !.wjob[w] = Head(pd.highPriorityJobs),
                         !.wpc[w] = "process"])

\* ... the high-priority queue is closed and drained
WaitHighClosed(w) ==
  /\ pd.wpc[w] = "wait" /\ pd.highPriorityJobs = <<>> /\ pd.highClosed
  /\ TierStep([pd EXCEPT !.wpc[w] = "lowonce"])

\* result := cd.processJob(job), which makes up to three attempts itself;
\* cd.completedJobs++
TierProcess(w, ok) ==
  /\ pd.wpc[w] = "process"
  /\ ok \/ pd.failuresLeft > 0
  /\ TierStep([pd EXCEPT !.wok[w] = ok, !.wpc[w] = "send",
                         !.completedJobs = @ + 1,
                         !.failuresLeft = IF ok THEN @ ELSE @ - 1])

\* cd.results <- result
TierSendResult(w) ==
  /\ pd.wpc[w] = "send" /\ Len(pd.results) < TierCap(pd.MaxWorkers)
  /\ TierStep([pd EXCEPT !.results = Append(@, [Job |-> pd.wjob[w],
                                                 Success |-> pd.wok[w]]),
                         !.wpc[w] = "select"])

NextTier ==
  \/ TierStart
  \/ TierAddJob
  \/ TierCloseHigh
  \/ TierCloseLow
  \/ TierCloseResults
  \/ TierReceive
  \/ TierReturn
  \/ \E w \in Workers : SelectHigh(w)
  \/ \E w \in Workers : SelectHighClosed(w)
  \/ \E w \in Workers : SelectDefault(w)
  \/ \E w \in Workers : LowOnce(w)
  \/ \E w \in Workers : WaitLow(w)
  \/ \E w \in Workers : WaitLowClosed(w)
  \/ \E w \in Workers : WaitHigh(w)
  \/ \E w \in Workers : WaitHighClosed(w)
  \/ \E w \in Workers, ok \in BOOLEAN : TierProcess(w, ok)
  \/ \E w \in Workers : TierSendResult(w)

SpecTier == InitTier /\ [][NextTier]_vars

(***************************************************************************)
(* The functions called on their own: one call per behaviour.              *)
(***************************************************************************)
InitCalls ==
  /\ InitProgram(<<>>, 1, 0)
  /\ writeFailuresLeft = 0 /\ pd = NoDownloader
  /\ out = NoOutput
  /\ \/ fn = "ResolveURL" /\ arg \in ResolveURLArgs
     \/ fn = "RemoveSourceMapReferences" /\ arg \in [content : Contents]
     \/ fn = "LocalizeSrcset" /\ arg \in LocalizeSrcsetArgs
     \/ fn = "LocalizeJavaScriptURLs" /\ arg \in ScriptBodies
     \/ fn = "ScrapeCommand" /\ arg \in ScrapeArgs
     \/ fn = "AddJob" /\ arg \in AddJobArgs
     \/ fn = "collectAllAssetJobs" /\ arg \in [doc : ScanDocs, base : {Base}]
     \/ fn = "LocalizeFontURLs" /\ arg \in LocalizeFontURLsArgs
     \/ fn = "AddErrorSuppressionScript" /\ arg \in [html : Pages]

NextCalls ==
  \/ CallResolveURL
  \/ CallRemoveSourceMapReferences
  \/ CallLocalizeSrcset
  \/ CallLocalizeJavaScriptURLs
  \/ CallScrapeCommand
  \/ CallAddJob
  \/ CallCollectAllAssetJobs
  \/ CallLocalizeFontURLs
  \/ CallAddErrorSuppressionScript

SpecCalls == InitCalls /\ [][NextCalls]_vars

(***************************************************************************)
(* Properties.                                                             *)
(***************************************************************************)
Returned == pc \in {"inlinejs", "rewrite", "done"} /\ allJobs # <<>>

Executing(w) == wpc[w] \in {"fetch", "transform"}

\* the URL a worker is fetching right now
FetchingURL(w) ==
  IF wpc[w] = "fetch" THEN wjob[w].URL ELSE Head(wtodo[w]).URL

\* the href of every stylesheet link of the document
StylesheetHrefs ==
  {AttrVal(doc[i].attrs, "href", EmptyRef) :
     i \in {j \in DOMAIN doc :
              /\ doc[j].tag = "link"
              /\ AttrVal(doc[j].attrs, "rel", "") = "stylesheet"}}

\* some job for this URL ended in the map
Downloaded(url) ==
  \E i \in DOMAIN allJobs :
    allJobs[i].URL = url /\ allJobs[i].OriginalPath \in DOMAIN urlMap

\* C1: when GetResults has returned, it has received exactly one result for
\* every job that was passed to AddJob.
C1_EveryJobRecordedOnce ==
  Returned => \A k \in DOMAIN recorded : recorded[k] = 1

\* C2: when GetResults has returned, every worker has exited and no retry
\* goroutine is left that has still to re-submit its job.
C2_NothingPendingAtReturn ==
  Returned => /\ \A w \in StartedWorkers(maxWorkers) : wpc[w] = "done"
              /\ retryTasks = {}

\* C3: processJob is called at most 3 times for any one submitted job.
C3_AtMostThreeAttempts ==
  \A k \in DOMAIN attempts : attempts[k] <= 3

\* C4: no goroutine executes a send on the job channel after FinishJobs has
\* closed it (such a send is the one thing that sets panicked).
C4_NoSendAfterFinishJobs ==
  jobsClosed => ~panicked

\* AddJob waits for a slot of the job channel, which only a worker frees, and
\* every worker waits for a slot of the result channel, which only GetResults
\* frees, which LocalizeAssets calls after its last AddJob
CircularWait ==
  /\ pc = "send" /\ ~CanSend(jobs, JobsCap(maxWorkers))
  /\ \A w \in StartedWorkers(maxWorkers) :
       wpc[w] = "send" /\ ~CanSend(results, ResultsCap(maxWorkers))

\* C5: LocalizeAssets never gets stuck: AddJob never waits on the full job
\* queue while every worker waits on the full result queue, a state that no
\* goroutine can leave.
C5_NeverStuck == ~CircularWait

\* C6: no two workers are fetching the same URL at the same time, be it the
\* URL of their job or one fetched while transforming a body.
C6_OneFetchPerURL ==
  \A v, w \in Workers :
    (v # w /\ Executing(v) /\ Executing(w)) => FetchingURL(v) # FetchingURL(w)

\* C7: the job list of one discovery pass holds no two jobs with the same
\* resolved URL.
C7_NoURLTwice ==
  \A i, j \in DOMAIN allJobs : i # j => allJobs[i].URL # allJobs[j].URL

\* C8: when two different stylesheet hrefs of the document resolve to one URL
\* and that URL was downloaded, the returned map has both hrefs as keys, with
\* the same local path.
C8_BothOriginsMapped ==
  Returned =>
    \A g, h \in StylesheetHrefs :
      (g # h /\ ResolveURL(Base, g) = ResolveURL(Base, h)
             /\ Downloaded(ResolveURL(Base, g)))
        => (g \in DOMAIN urlMap /\ h \in DOMAIN urlMap /\ urlMap[g] = urlMap[h])

\* a worker takes a job from the queue in this step
Takes(w) == wpc[w] = "recv" /\ wpc'[w] = "fetch"

\* C9: at most MaxWorkers jobs are being executed at any time, and a worker
\* that takes a job from the queue holds no job, no unfinished transform and
\* no undelivered result of an earlier job.
C9_BoundedWorkers ==
  /\ [](Cardinality({w \in Workers : wpc[w] \in {"fetch", "transform", "send"}})
          <= maxWorkers)
  /\ [][\A w \in Workers :
          /\ (wjob'[w] # wjob[w] /\ wjob'[w] # NoJob) => Takes(w)
          /\ Takes(w) => /\ wjob[w] = NoJob /\ wtodo[w] = <<>>
                         /\ wres[w] = NoResult
                         /\ jobs # <<>> /\ wjob'[w] = Head(jobs)]_vars

\* C9 witness: with two workers, both are executing a job
C9_Witness ==
  /\ maxWorkers = 2
  /\ \A w \in StartedWorkers(maxWorkers) : Executing(w)

RetryPending(k) == \E t \in retryTasks : JobKey(t.job) = k

\* C11: a failing job stops nothing else: no failure ends the run (the process
\* does not panic), and when GetResults has returned, every job other than
\* one whose retry is still pending has been executed and recorded once.
C11_FailureIsLocal ==
  /\ ~panicked
  /\ Returned => \A k \in DOMAIN recorded :
                   ~RetryPending(k) => (attempts[k] >= 1 /\ recorded[k] = 1)

\* LocalizeAssets has returned the rewritten document
Finished == pc = "done" /\ allJobs # <<>>

\* the job for this origin reference was recorded as failed
TerminallyFailed(R) ==
  /\ R \notin DOMAIN urlMap
  /\ \E k \in DOMAIN recorded : k.OriginalPath = R /\ recorded[k] >= 1

\* C12: in the final document, every occurrence of a reference whose job
\* ended in terminal failure is the original text of that reference.
C12_FailedReferenceKept ==
  Finished =>
    \A i \in DOMAIN html :
      TerminallyFailed(Occurrences(doc)[i])
        => html[i] = RefText(Occurrences(doc)[i])

\* C13: in the final document, every occurrence of a reference whose job
\* succeeded with local path P is P relative to the output root.
C13_AllOccurrencesReplaced ==
  Finished =>
    \A i \in DOMAIN html :
      Occurrences(doc)[i] \in DOMAIN urlMap
        => html[i] = RelativePath(urlMap[Occurrences(doc)[i]])

\* C14: the map holds entries of successful results only, each with a
\* non-empty local path: a result marked successful carries the path of its
\* file, a failed one carries none, the map changes only when GetResults
\* receives a successful result, by that result's entry, and the receipt of a
\* failed result leaves the map as it is.
C14_OnlySuccessesMapped ==
  /\ [](/\ \A k \in DOMAIN urlMap :
             /\ urlMap[k] # NoPath /\ LocalText(urlMap[k]) # <<>>
             /\ \E i \in DOMAIN allJobs : allJobs[i].OriginalPath = k
        /\ \A i \in DOMAIN results :
             results[i].Success <=> results[i].LocalPath # NoPath)
  /\ [][urlMap' # urlMap =>
          /\ pc = "range" /\ results # <<>> /\ Head(results).Success
          /\ urlMap' = MapPut(urlMap, Head(results).Job.OriginalPath,
                              Head(results).LocalPath)]_vars
  /\ [][(results # <<>> /\ results' = Tail(results) /\ ~Head(results).Success)
          => urlMap' = urlMap]_vars

\* C14 witness: GetResults has received a failed result and the map holds the
\* entry of a successful one
C14_Witness ==
  /\ urlMap # EmptyMap
  /\ \E k \in DOMAIN recorded :
       recorded[k] >= 1 /\ k.OriginalPath \notin DOMAIN urlMap

\* C15: every fetch is the fetch of the URL of a job that a worker took from
\* the queue: no worker fetches anything else while it transforms a body.
C15_NoFetchBypassesQueue ==
  /\ secondary = {}
  /\ \A w \in Workers :
       Executing(w) => (wtodo[w] = <<>> /\ FetchingURL(w) = wjob[w].URL)

\* the fonts that the stylesheet served at this URL refers to
FontsOf(url) ==
  {FontFetches(CssBody(url), Base)[j].URL :
     j \in DOMAIN FontFetches(CssBody(url), Base)}

Attempted(url) == \E r \in secondary : r.URL = url

\* C16: when GetResults has returned, no worker is still transforming a body,
\* and every font named by a stylesheet that was downloaded, as a job or
\* while a script was transformed, has been fetched or has failed.
C16_FontsResolvedAtReturn ==
  Returned =>
    /\ \A w \in Workers : wpc[w] # "transform" /\ wtodo[w] = <<>>
    /\ \A i \in DOMAIN allJobs :
         (allJobs[i].Type = "css" /\ allJobs[i].OriginalPath \in DOMAIN urlMap)
           => \A f \in FontsOf(allJobs[i].URL) : Attempted(f)
    /\ \A r \in secondary :
         (r.Type = "css" /\ r.ok) => \A f \in FontsOf(r.URL) : Attempted(f)

\* C16 witness: LocalizeAssets is about to return a document whose stylesheet
\* was downloaded and names a font
C16_Witness ==
  /\ Returned
  /\ \E i \in DOMAIN allJobs :
       /\ allJobs[i].Type = "css" /\ allJobs[i].OriginalPath \in DOMAIN urlMap
       /\ FontsOf(allJobs[i].URL) # {}

Called(f) == fn = f /\ out.done

HasDots(segs) == \E i \in DOMAIN segs : segs[i] \in {Dot, DotDot}

\* C20 as stated: resolving the result of ResolveURL against the same base
\* gives the result again, and a reference that has a scheme resolves to
\* itself.
C20_IdempotentAbsoluteKept ==
  Called("ResolveURL") =>
    /\ ResolveURL(arg.base, out.val) = out.val
    /\ arg.ref.scheme # "" => out.val = arg.ref

\* C20 amended: resolving the result of ResolveURL against the same base
\* gives the result again, and a reference that has a scheme and no "." or
\* ".." path segment resolves to itself.
C20_IdempotentNormalKept ==
  Called("ResolveURL") =>
    /\ ResolveURL(arg.base, out.val) = out.val
    /\ (arg.ref.scheme # "" /\ ~HasDots(arg.ref.segs)) => out.val = arg.ref

\* C20 witness: a relative reference with a ".." segment was resolved
C20_Witness ==
  /\ Called("ResolveURL")
  /\ arg.ref.scheme = "" /\ arg.ref.host = "" /\ ~arg.ref.bad
  /\ DotDot \in {arg.ref.segs[i] : i \in DOMAIN arg.ref.segs}
  /\ out.val # arg.ref

\* a block comment runs from its opening to the first "*/": the number of
\* tokens after the opening, the closing included, 0 when it is not closed
RECURSIVE BlockCommentLen(_)
BlockCommentLen(s) ==
  IF s = <<>> THEN 0
  ELSE IF Head(s) = "*/" THEN 1
  ELSE LET n == BlockCommentLen(Tail(s)) IN IF n = 0 THEN 0 ELSE n + 1

RECURSIVE SkipBlanks(_)
SkipBlanks(s) ==
  IF s # <<>> /\ Head(s) = "sp" THEN SkipBlanks(Tail(s)) ELSE s

\* the body of a comment begins, after white space, with sourceMappingURL=
\* (a line comment ends at the line break, a block comment may contain it)
NamesMapInBlock(body) ==
  SkipSpace(body) # <<>> /\ Head(SkipSpace(body)) = "sourceMappingURL="
NamesMapInLine(body) ==
  SkipBlanks(body) # <<>> /\ Head(SkipBlanks(body)) = "sourceMappingURL="

\* the content without its source-map comments: the comments are taken from
\* left to right, a comment that is no source-map comment stays as it is
\* with all it contains, an opening that is never closed begins no comment
RECURSIVE WithoutMapComments(_)
WithoutMapComments(s) ==
  IF s = <<>> THEN <<>>
  ELSE IF Head(s) = "/*#" /\ BlockCommentLen(Tail(s)) > 0
  THEN LET n == BlockCommentLen(Tail(s))
           after == WithoutMapComments(SubSeq(s, n + 2, Len(s)))
       IN IF NamesMapInBlock(Tail(s)) THEN after
          ELSE SubSeq(s, 1, n + 1) \o after
  ELSE IF Head(s) = "//#"
  THEN LET n == ToLineEnd(Tail(s))
           after == WithoutMapComments(SubSeq(s, n + 2, Len(s)))
       IN IF NamesMapInLine(Tail(s)) THEN after
          ELSE SubSeq(s, 1, n + 1) \o after
  ELSE <<Head(s)>> \o WithoutMapComments(Tail(s))

\* C19: RemoveSourceMapReferences returns the content without its block-form
\* and line-form source-map comments and with every other token in place.
C19_OnlyMapCommentsRemoved ==
  Called("RemoveSourceMapReferences") =>
    out.val = WithoutMapComments(arg.content)

\* an entry is localized when its URL is absolute http(s) and its download
\* succeeds
EntryLocalized(e, up) == ~e.empty /\ HasHTTPPrefix(e.url) /\ e.url \in up

\* the file of an image under assets/images: the last segment of its URL
ImagePathText(u) ==
  <<"assets", "/", "images", "/", Last(u.segs).name, ".",
    IF Last(u.segs).ext = "" THEN ContentTypeExt ELSE Last(u.segs).ext>>

\* what an entry of the srcset becomes: its local path and its descriptor,
\* or its text as it was written, without the blanks around it
EntryExpected(e, up) ==
  IF EntryLocalized(e, up)
  THEN ImagePathText(e.url) \o (IF e.desc = "" THEN <<>> ELSE <<"sp", e.desc>>)
  ELSE RefText(e.url) \o
       (IF e.desc = "" THEN <<>>
        ELSE IF e.wide THEN <<"sp", "sp", e.desc>> ELSE <<"sp", e.desc>>)

RECURSIVE EntriesExpected(_, _)
EntriesExpected(entries, up) ==
  IF entries = <<>> THEN <<>>
  ELSE (IF Head(entries).empty THEN <<>>
        ELSE <<EntryExpected(Head(entries), up)>>)
       \o EntriesExpected(Tail(entries), up)

\* C18: LocalizeSrcset treats the entries one by one and in their order: an
\* absolute http(s) entry whose download succeeds becomes its local path and
\* its descriptor, every other entry keeps its text, the empty srcset gives
\* the empty string, and the error returned is always nil.
C18_SrcsetPerEntry ==
  Called("LocalizeSrcset") =>
    /\ out.val.err = "nil"
    /\ out.val.text = Join(EntriesExpected(arg.entries, arg.up), <<",", "sp">>)
    /\ SrcsetText(arg.entries) = <<>> => out.val.text = <<>>

\* a srcset of two absolute entries: the first is downloaded, the second fails
C18_Witness ==
  /\ Called("LocalizeSrcset")
  /\ Len(arg.entries) = 2
  /\ EntryLocalized(arg.entries[1], arg.up)
  /\ ~arg.entries[2].empty
  /\ HasHTTPPrefix(arg.entries[2].url)
  /\ arg.entries[2].url \notin arg.up
  /\ arg.entries[2].desc # ""

\* the values the script body gives for a placeholder: those of consenttype
\* for type, those of the field of its name, with or without user_, for any
\* other placeholder
FieldValues(pairs, placeholder) ==
  {q.val : q \in {r \in pairs :
                   IF PlaceholderNames[placeholder] = "type"
                   THEN r.name = "consenttype" /\ ~r.user
                   ELSE r.name = PlaceholderNames[placeholder]}}

PlaceholdersOf(url) == {url[i] : i \in {j \in DOMAIN url : IsPlaceholder(url[j])}}

\* the templated URL with "/" for its separators and every placeholder
\* substituted from the script body
FullySubstituted(url, pairs) ==
  {[i \in DOMAIN url |->
      IF IsPlaceholder(url[i]) THEN f[url[i]]
      ELSE IF url[i] = "\\/" THEN "/" ELSE url[i]] :
     f \in {g \in [PlaceholdersOf(url) -> {q.val : q \in pairs}] :
              \A t \in PlaceholdersOf(url) : g[t] \in FieldValues(pairs, t)}}

\* C17: for a script body with a templated URL, every fetch is of the
\* template with all its placeholders substituted from the body, there is at
\* most one fetch, and a templated stylesheet that can be substituted is
\* fetched.
C17_TemplateFetchedOnceResolved ==
  (Called("LocalizeJavaScriptURLs") /\ PlaceholdersOf(arg.url) # {}) =>
    /\ \A i \in DOMAIN out.val.fetches :
         out.val.fetches[i] \in FullySubstituted(arg.url, arg.pairs)
    /\ Len(out.val.fetches) <= 1
    /\ (FullySubstituted(arg.url, arg.pairs) # {} /\ Last(arg.url) = ".css")
         => Len(out.val.fetches) = 1

\* an absolute base whose path ends in a directory
IsDirBase(base) ==
  base.scheme # "" /\ base.host # "" /\ base.segs # <<>>
    /\ Last(base.segs) = EmptySeg

\* a reference that is only a path
IsPathRef(ref) == ~ref.bad /\ ref.scheme = "" /\ ref.host = ""

IsFileName(seg) == seg \notin {EmptySeg, Dot, DotDot}

\* C21: against a base that ends in a directory, /p resolves to p on the host
\* of the base, a file name to that name in the directory of the base, ../p to
\* p in the parent of that directory (the root is its own parent), always with
\* the scheme and the host of the base.
C21_DirectoryBaseResolution ==
  (Called("ResolveURL") /\ IsDirBase(arg.base) /\ IsPathRef(arg.ref)) =>
    LET dir == Front(arg.base.segs)
        segs == arg.ref.segs
    IN /\ out.val.scheme = arg.base.scheme
       /\ out.val.host = arg.base.host
       /\ (arg.ref.rooted /\ ~HasDots(segs)) => out.val.segs = segs
       /\ (~arg.ref.rooted /\ Len(segs) = 1 /\ IsFileName(segs[1]))
            => out.val.segs = dir \o segs
       /\ (~arg.ref.rooted /\ Len(segs) >= 2 /\ Head(segs) = DotDot
              /\ ~HasDots(Tail(segs)))
            => out.val.segs = Front(dir) \o Tail(segs)

\* ../s.css resolved against a directory one level below the root
C21_Witness ==
  /\ Called("ResolveURL") /\ arg.base = Base
  /\ arg.ref = MkRef("", "", FALSE, <<DotDot, Seg("s", "css")>>)
  /\ out.val = MkRef("https", "x", TRUE, <<Seg("s", "css")>>)

\* the references of the document that url.Parse rejects
MalformedRefs ==
  {Occurrences(doc)[i] : i \in {j \in DOMAIN Occurrences(doc) :
                                   Occurrences(doc)[j].bad}}

\* C22: a reference that cannot be parsed is returned as it is by ResolveURL,
\* gives no job, is never handed to processJob nor re-queued, and stands
\* unchanged in the document that is returned.
C22_MalformedDropped ==
  \A r \in MalformedRefs :
    /\ ResolveURL(Base, r) = r
    /\ \A i \in DOMAIN allJobs : allJobs[i].OriginalPath # r
    /\ \A k \in DOMAIN attempts : k.OriginalPath = r => attempts[k] = 0
    /\ \A t \in retryTasks : t.job.OriginalPath # r
    /\ Finished =>
         \A i \in DOMAIN html : Occurrences(doc)[i] = r => html[i] = RefText(r)

\* C23: a job whose file could not be written is not attempted again: it was
\* handed to processJob once, no retry goroutine holds it and it is not in the
\* job channel.
C23_WriteFailureFinal ==
  \A k \in unwritable :
    /\ attempts[k] = 1
    /\ \A t \in retryTasks : JobKey(t.job) # k
    /\ \A i \in DOMAIN jobs : JobKey(jobs[i]) # k

\* the local paths of the jobs whose processJob returned success
FinishedPaths ==
  {wres[w].LocalPath : w \in {v \in Workers : wres[v].Success}}
    \cup {results[i].LocalPath : i \in {j \in DOMAIN results : results[j].Success}}
    \cup {urlMap[k] : k \in DOMAIN urlMap}

\* some worker is between the opening and the write of this file
BeingWritten(p) ==
  \E w \in Workers : wpc[w] = "write" /\ LocalPathOf(wjob[w]) = p

WholeBodies == {BodyOf(allJobs[i].URL) : i \in DOMAIN allJobs}

\* C24: a file that no worker is writing holds one whole fetched body, and so
\* does, at every moment, the file of a job that has finished.
C24_FilesWhole ==
  \A p \in DOMAIN files :
    (p \in FinishedPaths \/ ~BeingWritten(p)) => files[p] \in WholeBodies


(***************************************************************************)
(* C25.  Whenever a worker of the downloader with priority queues takes    *)
(* its next job in a step that starts with a job ready in the high-        *)
(* priority queue and a job ready in the low-priority queue, the job it    *)
(* takes is the one at the head of the high-priority queue.                *)
(***************************************************************************)
TakesJob(w) ==
  /\ pd.wpc[w] \in {"select", "wait", "lowonce"}
  /\ pd'.wpc[w] = "process"

C25_HighPriorityFirst ==
  [][\A w \in Workers :
       (TakesJob(w) /\ pd.highPriorityJobs # <<>> /\ pd.lowPriorityJobs # <<>>)
         => pd'.wjob[w] = Head(pd.highPriorityJobs)]_vars

(***************************************************************************)
(* C26.  Every low-priority job that was submitted is executed and         *)
(* recorded: when neither the main goroutine nor any worker of the         *)
(* downloader with priority queues can take another step, every low-       *)
(* priority job handed to AddJob is among the results GetResults received. *)
(***************************************************************************)
TierTargetFull ==
  IF AssignedPriority(pd.assetJobs[pd.idx + 1]) = HighPriority
  THEN Len(pd.highPriorityJobs) = TierCap(pd.MaxWorkers)
  ELSE Len(pd.lowPriorityJobs) = TierCap(pd.MaxWorkers)

TierMainHalted ==
  \/ pd.pc = "done"
  \/ pd.pc = "add" /\ pd.idx < Len(pd.assetJobs) /\ TierTargetFull
  \/ /\ pd.pc = "range" /\ pd.results = <<>> /\ ~pd.resultsClosed
     /\ \E w \in 1..pd.MaxWorkers : pd.wpc[w] # "done"

TierWorkerHalted(w) ==
  \/ pd.wpc[w] \in {"unborn", "done"}
  \/ pd.wpc[w] = "send" /\ Len(pd.results) = TierCap(pd.MaxWorkers)
  \/ /\ pd.wpc[w] = "wait"
     /\ pd.highPriorityJobs = <<>> /\ ~pd.highClosed
     /\ pd.lowPriorityJobs = <<>> /\ ~pd.lowClosed

TierHalted == TierMainHalted /\ \A w \in Workers : TierWorkerHalted(w)

SubmittedLow ==
  {pd.assetJobs[i].id : i \in {j \in 1..pd.idx :
      AssignedPriority(pd.assetJobs[j]) = LowPriority}}

RecordedIds == {pd.received[i].Job.id : i \in DOMAIN pd.received}

C26_LowJobsRecorded == TierHalted => SubmittedLow \subseteq RecordedIds

\* the second half of C26: a worker returns only when the low-priority queue
\* holds no job
C26_NoExitWithLowJobs ==
  [][\A w \in Workers :
       (pd.wpc[w] # "done" /\ pd'.wpc[w] = "done")
         => pd.lowPriorityJobs = <<>>]_vars


(***************************************************************************)
(* C27.  A failed attempt of a job that has retries left frees the worker  *)
(* in the same step: the worker is back at the receive of its range loop   *)
(* holding no job, the re-submission is left to a retry goroutine, and the *)
(* job queue is not touched, so the worker neither sleeps through the      *)
(* retry delay nor waits for a slot in the queue.                          *)
(***************************************************************************)
FailedAttempt(w) ==
  /\ wpc[w] = "fetch" /\ wpc'[w] # "fetch"
  /\ wjob[w].RetryCount < RetryLimit
  /\ failuresLeft' < failuresLeft \/ wjob[w].URL.bad

C27_WorkerFreeAfterFailure ==
  [][\A w \in Workers :
       FailedAttempt(w) =>
         /\ wpc'[w] = "recv" /\ wjob'[w] = NoJob
         /\ jobs' = jobs
         /\ [job |-> [wjob[w] EXCEPT !.RetryCount = @ + 1]] \in retryTasks']_vars

\* the only worker is fetching another job while the re-submission of a job
\* that failed is still pending
C27_Witness ==
  /\ maxWorkers = 1 /\ wpc[1] = "fetch"
  /\ \E t \in retryTasks : JobKey(t.job) # JobKey(wjob[1])


(***************************************************************************)
(* C28.  The scrape command accepts a worker count exactly when it is in   *)
(* 1..100, and uses 100 when -concurrency is not given.                    *)
(***************************************************************************)
C28_WorkerCountRange ==
  Called("ScrapeCommand") =>
    /\ arg.given => (out.val.exit = 0 <=> arg.value \in 1..100)
    /\ arg.given /\ arg.value \in 1..100 => out.val.concurrency = arg.value
    /\ ~arg.given => out.val.exit = 0 /\ out.val.concurrency = 100


(***************************************************************************)
(* C29.  AddErrorSuppressionScript is idempotent: a page that holds the    *)
(* marker of the script comes back unchanged, every application after the  *)
(* first returns the result of the first, and so the marker occurs in no   *)
(* later result more often than in the first.                              *)
(***************************************************************************)
HasMarker(page) == \E i \in DOMAIN page : page[i] = "marker"

MarkerCount(page) == Cardinality({i \in DOMAIN page : page[i] = "marker"})

C29_SuppressionIdempotent ==
  Called("AddErrorSuppressionScript") =>
    /\ HasMarker(arg.html) => out.val[1] = arg.html
    /\ \A i \in 2..Len(out.val) :
         /\ out.val[i] = out.val[1]
         /\ MarkerCount(out.val[i]) <= MarkerCount(out.val[1])

\* the script went into a page that did not hold it, and two further
\* applications have been made
C29_Witness ==
  /\ Called("AddErrorSuppressionScript")
  /\ ~HasMarker(arg.html) /\ HasMarker(out.val[1])
  /\ Len(out.val) = MaxApplications


(***************************************************************************)
(* C30.  LocalizeFontURLs leaves a url(...) reference alone unless its     *)
(* extension is woff, woff2, ttf, eot or svg: no GET is made for it, no    *)
(* file of it is written under fonts/, and its text in the stylesheet      *)
(* stays as it was.                                                        *)
(***************************************************************************)
C30_OnlyFontsLocalized ==
  Called("LocalizeFontURLs") =>
    \A i \in DOMAIN arg.css :
      ~IsFontFile(arg.css[i]) =>
        /\ \A j \in DOMAIN out.val.gets :
             out.val.gets[j] # FontURL(arg.base, arg.css[i])
        /\ LocalFontPath(FontURL(arg.base, arg.css[i])) \notin out.val.written
        /\ out.val.css[i] = RefText(arg.css[i])


(***************************************************************************)
(* C31.  After LocalizeFontURLs every font reference whose GET succeeded   *)
(* reads fonts/<last path segment of its URL> in the stylesheet, whatever  *)
(* other references the stylesheet holds.                                  *)
(***************************************************************************)
C31_FontReadsLocalPath ==
  Called("LocalizeFontURLs") =>
    \A i \in DOMAIN arg.css :
      (IsFontFile(arg.css[i]) /\ FontURL(arg.base, arg.css[i]) \in arg.up) =>
        out.val.css[i] = RelativeFontPath(FontURL(arg.base, arg.css[i]))


(***************************************************************************)
(* C32.  No job of the scanner has the empty string as its origin          *)
(* reference: an element whose href, src or data-src is empty gives no     *)
(* job, so no key of the asset map is empty.                               *)
(***************************************************************************)
HasEmptyRef(el) ==
  \E i \in DOMAIN el.attrs :
    el.attrs[i].key \in {"href", "src", "data-src"} /\ el.attrs[i].val = EmptyRef

C32_NoEmptyOrigin ==
  Called("collectAllAssetJobs") =>
    \A j \in DOMAIN out.val : RefText(out.val[j].OriginalPath) # <<>>

\* a document with an element whose reference is empty and an element that
\* gave a job
C32_Witness ==
  /\ Called("collectAllAssetJobs")
  /\ \E i \in DOMAIN arg.doc : HasEmptyRef(arg.doc[i])
  /\ out.val # <<>>

(***************************************************************************)
(* C33.  A reference in an image context (img src, img data-src, srcset,   *)
(* image meta content, background-image of a style attribute) gives a job  *)
(* only when it starts with http:// or https://, and every script job      *)
(* comes from the src of a script element.                                 *)
(***************************************************************************)
\* the references an element holds in image contexts
ImageContextRefs(el) ==
  UNION {IF el.attrs[i].key \in {"srcset", "style"}
         THEN {el.attrs[i].val[k] : k \in DOMAIN el.attrs[i].val}
         ELSE IF \/ el.tag = "img" /\ el.attrs[i].key \in {"src", "data-src"}
                 \/ el.tag = "meta" /\ el.attrs[i].key = "content"
         THEN {el.attrs[i].val}
         ELSE {} : i \in DOMAIN el.attrs}

\* the references of link and script elements
LinkScriptRefs(el) ==
  {el.attrs[i].val : i \in {k \in DOMAIN el.attrs :
      el.tag \in {"link", "script"} /\ el.attrs[k].key \in {"href", "src"}}}

C33_ImagesOnlyAbsolute ==
  Called("collectAllAssetJobs") =>
    \A j \in DOMAIN out.val :
      LET orig == out.val[j].OriginalPath IN
      /\ ( /\ \E i \in DOMAIN arg.doc : orig \in ImageContextRefs(arg.doc[i])
           /\ \A i \in DOMAIN arg.doc : orig \notin LinkScriptRefs(arg.doc[i]) )
           => HasHTTPPrefix(orig)
      /\ out.val[j].Type = "js" =>
           \E i \in DOMAIN arg.doc :
             arg.doc[i].tag = "script" /\ orig \in LinkScriptRefs(arg.doc[i])

\* a document with a relative or protocol-relative image reference and an
\* absolute one: only the absolute one gave a job
C33_Witness ==
  /\ Called("collectAllAssetJobs")
  /\ \E i \in DOMAIN arg.doc :
       \E r \in ImageContextRefs(arg.doc[i]) : r # EmptyRef /\ ~HasHTTPPrefix(r)
  /\ Len(out.val) = 1 /\ out.val[1].Type = "image"
  /\ HasHTTPPrefix(out.val[1].OriginalPath)


(***************************************************************************)
(* C34.  The retry goroutines that exist at the same time, sleeping or     *)
(* waiting to send, never number more than the job queue has slots         *)
(* (maxWorkers*4), however many jobs were submitted.                       *)
(***************************************************************************)
C34_BoundedRetryTasks == Cardinality(retryTasks) <= JobsCap(maxWorkers)


(***************************************************************************)
(* C35.  Two jobs of the same asset kind whose URLs differ are stored      *)
(* under different local paths.                                            *)
(***************************************************************************)
C35_DistinctLocalPaths ==
  \A i, j \in DOMAIN allJobs :
    ( /\ allJobs[i].Type = allJobs[j].Type /\ allJobs[i].URL # allJobs[j].URL
      /\ ~allJobs[i].URL.bad /\ ~allJobs[j].URL.bad )
      => LocalPathOf(allJobs[i]) # LocalPathOf(allJobs[j])


(***************************************************************************)
(* C36.  The progress counters: completedJobs never exceeds totalJobs and  *)
(* never decreases; it grows by one exactly in the step that finalizes a   *)
(* job (the worker goes on to send the result), not in one that re-queues  *)
(* a failed attempt; and when GetResults returns, completedJobs and        *)
(* totalJobs both equal the number of AddJob calls.                        *)
(***************************************************************************)
Finalizes(w) == wpc[w] # "send" /\ wpc'[w] = "send"

GetResultsReturns == pc = "range" /\ pc' # "range"

C36_CountersInBounds ==
  /\ completedJobs' <= totalJobs'
  /\ completedJobs' >= completedJobs

C36_OncePerFinalizedJob ==
  /\ (\E w \in Workers : Finalizes(w)) <=> completedJobs' = completedJobs + 1
  /\ (\E w \in Workers : FailedAttempt(w)) => completedJobs' = completedJobs

C36_AllCountedAtReturn ==
  GetResultsReturns =>
    (completedJobs' = totalJobs' /\ totalJobs' = Len(allJobs))

C36_ProgressCounters ==
  [][C36_CountersInBounds /\ C36_OncePerFinalizedJob /\ C36_AllCountedAtReturn]_vars


(***************************************************************************)
(* C37.  The final document is the same in every run: for the document     *)
(* and the asset map that LocalizeAssets has when it starts the rewriting, *)
(* every order in which updateHTMLWithLocalPaths ranges over the map       *)
(* gives the same text.                                                    *)
(***************************************************************************)
C37_RewriteOrderIrrelevant ==
  pc = "rewrite" => Cardinality(updateHTMLWithLocalPaths(html, urlMap)) = 1


(***************************************************************************)
(* C38.  When the scanner finds no job, LocalizeAssets returns the text of *)
(* the document as it was given, without error; no worker was started, no  *)
(* fetch was made and no file was written.                                 *)
(***************************************************************************)
NoJobFound == pc # "collect" /\ allJobs = <<>>

C38_NoJobNoEffect ==
  NoJobFound =>
    /\ pc = "done" /\ ~panicked
    /\ html = DocText(doc)
    /\ \A w \in Workers : wpc[w] = "unborn"
    /\ totalJobs = 0 /\ jobs = <<>> /\ retryTasks = {}
    /\ secondary = {} /\ files = NoFiles

\* a document with elements, none of which gave a job, has been returned
C38_Witness == NoJobFound /\ pc = "done" /\ Len(doc) = MaxQuietElems


(***************************************************************************)
(* C39.  AddJob of the downloader with priority queues takes the priority  *)
(* from the asset type only for a job whose priority the caller did not    *)
(* set; a job whose priority the caller set goes to the queue of that      *)
(* priority whatever its type.                                             *)
(***************************************************************************)
C39_ExplicitPriorityKept ==
  Called("AddJob") =>
    IF arg.set
    THEN out.val = (IF arg.Priority = HighPriority THEN "highPriorityJobs"
                    ELSE "lowPriorityJobs")
    ELSE out.val = (IF arg.Type \in {"css", "js", "json"}
                    THEN "highPriorityJobs" ELSE "lowPriorityJobs")

============================================================================
